---------------------------- MODULE Spec2Model ----------------------------
(***************************************************************************)
(* Signal detection and alert dispatch engine of crypto_bot                *)
(* (src/signal_checker.py, driven by src/run_buy_signal_loop.py).          *)
(*                                                                         *)
(* One evaluation cycle is check_all_signals(): it fetches the BTC minute  *)
(* series and then calls the nine check_alert_* functions in a fixed       *)
(* order.  The loop is single-threaded and the call is synchronous, so a   *)
(* cycle is one action, CheckAllSignals, built from one Step per call.     *)
(*                                                                         *)
(* Units.  Time is in minutes.  Percentages are exact rationals, compared  *)
(* by cross-multiplication; thresholds written with one decimal in the     *)
(* source are kept in tenths of a percent, funding rates in hundredths of  *)
(* a percent, the ETH/BTC ratio in thousandths, dominance in tenths of a   *)
(* percent.                                                                *)
(***************************************************************************)
EXTENDS Integers, Sequences, FiniteSets

\* ------------------------------------------------------------------------
\* Settings (src/signal_checker.py:11-87)
\* ------------------------------------------------------------------------
ALERT_ENABLED == TRUE

ALERT_ACCELERATION_ENABLED == TRUE
ALERT_ACCELERATION_PERIOD == 30
\* 0.5 %, in tenths of a percent
ALERT_ACCELERATION_MIN_DIFF == 5
ALERT_ACCELERATION_COOLDOWN == 30

ALERT_MOMENTUM_ENABLED == TRUE
ALERT_MOMENTUM_PERIOD == 5
ALERT_MOMENTUM_COUNT == 4
\* 0.2 %, in tenths of a percent
ALERT_MOMENTUM_MIN_CHANGE == 2
ALERT_MOMENTUM_DIRECTION == "both"
ALERT_MOMENTUM_COOLDOWN == 60

ALERT_SPIKE_ENABLED == TRUE
ALERT_SPIKE_PERIOD == 5
\* 0.6 %, in tenths of a percent
ALERT_SPIKE_THRESHOLD == 6
ALERT_SPIKE_COOLDOWN == 120

ALERT_GOLD_ENABLED == TRUE
ALERT_GOLD_COOLDOWN == 180
ALERT_GOLD_ROUND_INCREMENT == 100

ALERT_ROTATION_ENABLED == TRUE
\* 2.5 %, in tenths of a percent
ALERT_ROTATION_THRESHOLD_MODERATE == 25
ALERT_ROTATION_COOLDOWN == 600

ALERT_BTC_LEVEL_ENABLED == TRUE
ALERT_BTC_ROUND_INCREMENT == 2000
ALERT_BTC_COOLDOWN == 240

ALERT_ETH_BTC_ENABLED == TRUE
\* 0.035 .. 0.060, in thousandths
ALERT_ETH_BTC_LEVELS == {35, 40, 45, 50, 55, 60}
\* 3.0 %, in whole percent
ALERT_ETH_BTC_DIVERGENCE_THRESHOLD == 3
ALERT_ETH_BTC_COOLDOWN == 90
ALERT_ETH_BTC_MIN_VOLUME == -50

ALERT_BTC_DOM_ENABLED == TRUE
\* 54.0, 56.0, 57.5, 58.5 %, in tenths of a percent
ALERT_BTC_DOM_THRESHOLDS == {540, 560, 575, 585}
\* 0.4 %, in tenths of a percent
ALERT_BTC_DOM_MOMENTUM_THRESHOLD == 4
ALERT_BTC_DOM_COOLDOWN == 180

ALERT_DERIVATIVES_ENABLED == TRUE
\* 0.08 % and 0.10 %, in hundredths of a percent
ALERT_DERIVATIVES_FUNDING_EXTREME == 8
ALERT_DERIVATIVES_FUNDING_VERY_EXTREME == 10
ALERT_DERIVATIVES_OI_HIGH == 30
ALERT_DERIVATIVES_OI_EXTREME == 35
ALERT_DERIVATIVES_COOLDOWN == 360

\* Literals of the detectors' bodies.
\* gold: (gold_price // 50) * 50
GOLD_LEVEL_STEP == 50
\* volume_vs_avg < -50 (gold, BTC level)
MIN_VOLUME_VS_AVG == -50
\* volume_spike = volume_vs_avg > 100
VOLUME_SPIKE_PCT == 100
\* len(candles_*) < 168, candles_*[-168:]
WINDOW_7D == 168
\* len(candles) < 130
MIN_MINUTE_CANDLES == 130
\* btc_price = 100000  # Fallback (thousands of USD)
FALLBACK_BTC_PRICE_K == 100

\* ------------------------------------------------------------------------
\* Bounds of the model
\* ------------------------------------------------------------------------
\* last minute at which a cycle may start
MaxTime == 420

\* minutes between the starts of two consecutive cycles
TimeSteps == {60, 120}

\* ------------------------------------------------------------------------
\* Detectors, in the order check_all_signals calls them
\* ------------------------------------------------------------------------
Order == <<"acc", "mom", "spike", "gold", "rot", "btc", "eth", "dom", "deriv">>

Detectors == {Order[i] : i \in 1..Len(Order)}

\* the three detectors fed by the minute series check_all_signals fetches
MinuteDets == {"acc", "mom", "spike"}

\* the detectors that keep a last-observed value
ObsDets == {"gold", "btc", "eth", "dom"}

\* round-level (gold, BTC) and explicit-level (ETH/BTC) crossing detectors
CrossDets == {"gold", "btc", "eth"}

\* the value of an unset global (None)
None == -1

Enabled(d) ==
    /\ ALERT_ENABLED
    /\ CASE d = "acc" -> ALERT_ACCELERATION_ENABLED
         [] d = "mom" -> ALERT_MOMENTUM_ENABLED
         [] d = "spike" -> ALERT_SPIKE_ENABLED
         [] d = "gold" -> ALERT_GOLD_ENABLED
         [] d = "rot" -> ALERT_ROTATION_ENABLED
         [] d = "btc" -> ALERT_BTC_LEVEL_ENABLED
         [] d = "eth" -> ALERT_ETH_BTC_ENABLED
         [] d = "dom" -> ALERT_BTC_DOM_ENABLED
         [] d = "deriv" -> ALERT_DERIVATIVES_ENABLED

Cooldown(d) ==
    CASE d = "acc" -> ALERT_ACCELERATION_COOLDOWN
      [] d = "mom" -> ALERT_MOMENTUM_COOLDOWN
      [] d = "spike" -> ALERT_SPIKE_COOLDOWN
      [] d = "gold" -> ALERT_GOLD_COOLDOWN
      [] d = "rot" -> ALERT_ROTATION_COOLDOWN
      [] d = "btc" -> ALERT_BTC_COOLDOWN
      [] d = "eth" -> ALERT_ETH_BTC_COOLDOWN
      [] d = "dom" -> ALERT_BTC_DOM_COOLDOWN
      [] d = "deriv" -> ALERT_DERIVATIVES_COOLDOWN

VARIABLES
    now,        \* get_montevideo_time() / datetime.now() at the last cycle
    lastTime,   \* last_alert_*_time, per detector
    lastObs,    \* last_gold_check_price, last_btc_check_price,
                \* last_eth_btc_check_ratio, last_btc_dom_check
    active,     \* environment: detectors whose instrument is reachable and moving
    topfetch,   \* outcome of the minute-series fetch of the last cycle
    evald,      \* detectors called in the last cycle
    raised,     \* detectors in whose evaluation an exception occurred
    sent,       \* send_alert calls per detector in the last cycle
    res,        \* what each detector did in the last cycle
    hover,      \* per crossing detector: whether all values compared so far
                \* stayed strictly inside one interval between levels
    series,     \* hourly closes fed so far (rising-series scenario)
    fires,      \* bars of the series at which a new-high break was sent
    probe,      \* the arguments a function is called with (function scenarios)
    answer,     \* what it returned
    phase,      \* the loop: "Idle" (sleeping), "Running" (in check_all_signals),
                \* "Stopped" (the process was interrupted)
    pos,        \* position in check_all_signals: 0 the minute-series fetch,
                \* 1..9 the call of Order[pos], 10 past the last call
    win,        \* candles and btc_price of the running cycle
    pend,       \* the check_alert_* call that is inside its trigger branch
    outcome     \* how the last check_all_signals ended

\* the variables of the scenarios other than the atomic cycle
aux == <<probe, answer, phase, pos, win, pend, outcome>>

vars == <<now, lastTime, lastObs, active, topfetch, evald, raised, sent, res,
          hover, series, fires, probe, answer, phase, pos, win, pend, outcome>>

\* the module globals of signal_checker.py and the bookkeeping of one cycle
globals == <<now, lastTime, lastObs, active, topfetch, evald, raised, sent, res,
             hover, series, fires>>

\* ------------------------------------------------------------------------
\* Arithmetic helpers
\* ------------------------------------------------------------------------
Abs(x) == IF x < 0 THEN -x ELSE x

Max2(a, b) == IF a >= b THEN a ELSE b

SetMax(S) == CHOOSE x \in S : \A y \in S : x >= y

SetMin(S) == CHOOSE x \in S : \A y \in S : x <= y

Min2(a, b) == IF a <= b THEN a ELSE b

\* Python truthiness of an optional number: None and 0 are false
Truthy(x) == x # None /\ x # 0

\* ------------------------------------------------------------------------
\* check_cooldown (src/signal_checker.py:260-267)
\* ------------------------------------------------------------------------
CheckCooldownStrict(last_time, cooldown_minutes, t) ==
    IF last_time = None THEN TRUE ELSE (t - last_time) > cooldown_minutes

CheckCooldown(last_time, cooldown_minutes, t) ==
    IF last_time = None THEN TRUE ELSE (t - last_time) >= cooldown_minutes

\* the inline cooldown test of check_alert_btc_dominance (1606-1611)
DomCooldown(last_time, t) ==
    IF last_time = None THEN TRUE
    ELSE ~((t - last_time) < ALERT_BTC_DOM_COOLDOWN)

\* ------------------------------------------------------------------------
\* What one call of a check_alert_* function does
\* ------------------------------------------------------------------------
\* raise : an exception occurred in the body
\* fire  : the trigger branch was taken (timestamp set, send_alert called)
\* nsend : calls of send_alert
\* upd, obs : the last-observed global was assigned obs
\* cross : the crossed-level flag computed by the code
\* high  : the broke-high flag computed by the code
\* blow  : the broke-low flag computed by the code
\* low   : the minimum-volume check returned
\* first : no last-observed value was stored (the fallback bar was used)
\* prevv, curv : the two values compared by the crossing test
\* multi : more than one trigger condition held
Quiet ==
    [raise |-> FALSE, fire |-> FALSE, nsend |-> 0, upd |-> FALSE, obs |-> None,
     cross |-> FALSE, high |-> FALSE, blow |-> FALSE, low |-> FALSE,
     first |-> FALSE, prevv |-> None, curv |-> None, multi |-> FALSE]

\* the except branch, or an exception leaving the function
Raises(primary) == [Quiet EXCEPT !.raise = TRUE]

\* an early return on a failed, malformed or too short primary fetch
PrimaryFail == Quiet

\* ------------------------------------------------------------------------
\* The minute series: closes at the negative indices the detectors read
\* ------------------------------------------------------------------------
MinuteIdx == {60, 30, 20, 15, 10, 5}

Window(c60, c30, c20, c15, c10, c5, p) ==
    [c |-> [k \in MinuteIdx |->
              CASE k = 60 -> c60 [] k = 30 -> c30 [] k = 20 -> c20
                [] k = 15 -> c15 [] k = 10 -> c10 [] k = 5 -> c5],
     price |-> p]

\* representative windows: flat, accelerating, sustained momentum, spike down,
\* everything at once, and two malformed series (a zero close)
Windows ==
    { Window(1000, 1000, 1000, 1000, 1000, 1000, 1000),
      Window(1000, 1000, 1002, 1002, 1003, 1003, 1006),
      Window( 976,  994, 1000, 1003, 1006, 1009, 1012),
      Window(1021, 1007, 1000, 1000, 1000, 1000,  993),
      Window(1000, 1000, 1000, 1003, 1006, 1009, 1016),
      Window(   0, 1000, 1000, 1000, 1000, 1000, 1000),
      Window(1000, 1000, 1000, 1000, 1000,    0, 1000) }

NoCandles == [k \in MinuteIdx |-> 0]

\* candles[-k]['close'], or btc_price for the open end of the newest block
CloseAt(c, p, k) == IF k = 0 THEN p ELSE c[k]

\* |(b - a) / a * 100| >= tenths / 10, for a > 0
PctAtLeast(a, b, tenths) == 1000 * Abs(b - a) >= tenths * a

\* ------------------------------------------------------------------------
\* check_alert_acceleration (298-368), after its enabled and cooldown tests
\* ------------------------------------------------------------------------
\* the difference of the signed changes, without abs()
HasAccelerationSigned(c, p) ==
    LET price_2periods_ago == c[ALERT_ACCELERATION_PERIOD * 2]
        price_1period_ago == c[ALERT_ACCELERATION_PERIOD]
    IN  1000 * ((p - price_1period_ago) * price_2periods_ago
                - (price_1period_ago - price_2periods_ago) * price_1period_ago)
          >= ALERT_ACCELERATION_MIN_DIFF * price_1period_ago * price_2periods_ago

HasAcceleration(c, p) ==
    LET price_2periods_ago == c[ALERT_ACCELERATION_PERIOD * 2]
        price_1period_ago == c[ALERT_ACCELERATION_PERIOD]
    IN  \* abs(period2_change) - abs(period1_change) >= MIN_DIFF
        1000 * (Abs(p - price_1period_ago) * price_2periods_ago
                - Abs(price_1period_ago - price_2periods_ago) * price_1period_ago)
          >= ALERT_ACCELERATION_MIN_DIFF * price_1period_ago * price_2periods_ago

AccelerationEval(c, p) ==
    IF c[ALERT_ACCELERATION_PERIOD * 2] = 0 \/ c[ALERT_ACCELERATION_PERIOD] = 0
    THEN Raises(TRUE)     \* ZeroDivisionError, not caught in the function
    ELSE IF HasAcceleration(c, p)
         THEN [Quiet EXCEPT !.fire = TRUE, !.nsend = 1]
         ELSE Quiet

\* ------------------------------------------------------------------------
\* check_alert_momentum (370-487)
\* ------------------------------------------------------------------------
Blocks == 0..(ALERT_MOMENTUM_COUNT - 1)

BlockStart(c, p, i) == CloseAt(c, p, (i + 1) * ALERT_MOMENTUM_PERIOD)

BlockEnd(c, p, i) == CloseAt(c, p, i * ALERT_MOMENTUM_PERIOD)

\* the magnitudes alone, whatever the directions
ShouldTriggerAnyDirection(c, p) ==
    \A i \in Blocks :
        PctAtLeast(BlockStart(c, p, i), BlockEnd(c, p, i), ALERT_MOMENTUM_MIN_CHANGE)

ShouldTrigger(c, p) ==
    LET all_positive == \A i \in Blocks : ~(BlockEnd(c, p, i) <= BlockStart(c, p, i))
        all_negative == \A i \in Blocks : ~(BlockEnd(c, p, i) >= BlockStart(c, p, i))
        all_meet_threshold == \A i \in Blocks :
            PctAtLeast(BlockStart(c, p, i), BlockEnd(c, p, i), ALERT_MOMENTUM_MIN_CHANGE)
    IN  CASE ALERT_MOMENTUM_DIRECTION = "up" -> all_positive /\ all_meet_threshold
          [] ALERT_MOMENTUM_DIRECTION = "down" -> all_negative /\ all_meet_threshold
          [] ALERT_MOMENTUM_DIRECTION = "both" ->
                (all_positive /\ all_meet_threshold)
                \/ (all_negative /\ all_meet_threshold)
          [] OTHER -> FALSE

MomentumEval(c, p) ==
    IF \E i \in Blocks : BlockStart(c, p, i) = 0
    THEN Raises(TRUE)     \* ZeroDivisionError, not caught in the function
    ELSE IF ShouldTrigger(c, p)
         THEN [Quiet EXCEPT !.fire = TRUE, !.nsend = 1]
         ELSE Quiet

\* ------------------------------------------------------------------------
\* check_alert_spike (489-547)
\* ------------------------------------------------------------------------
HasSpike(c, p) == PctAtLeast(c[ALERT_SPIKE_PERIOD], p, ALERT_SPIKE_THRESHOLD)

SpikeEval(c, p) ==
    IF c[ALERT_SPIKE_PERIOD] = 0
    THEN Raises(TRUE)     \* ZeroDivisionError, not caught in the function
    ELSE IF HasSpike(c, p)
         THEN [Quiet EXCEPT !.fire = TRUE, !.nsend = 1]
         ELSE Quiet

MinuteEval(d, c, p) ==
    CASE d = "acc" -> AccelerationEval(c, p)
      [] d = "mom" -> MomentumEval(c, p)
      [] d = "spike" -> SpikeEval(c, p)

\* environment: a window is offered only if every minute detector it would
\* trigger or break is active
WindowsFor(act) ==
    { w \in Windows : \A d \in MinuteDets :
        (MinuteEval(d, w.c, w.price).fire \/ MinuteEval(d, w.c, w.price).raise)
            => d \in act }

\* ------------------------------------------------------------------------
\* Hourly series.  cl is the tail of the response's closes (cl[Len(cl)] is
\* candles[-1]); n is the number of candles the response held.  Bars older
\* than the tail repeat its first close, so max and min are those of the tail.
\* ------------------------------------------------------------------------
Close(cl, k) == cl[Len(cl) - k + 1]

Range(q) == {q[i] : i \in 1..Len(q)}

\* max(prices)
SeqMax(q) == SetMax(Range(q))

\* min(prices)
SeqMin(q) == SetMin(Range(q))

\* prices_7d = [c['close'] for c in candles[-168:]]
Prices7d(cl) ==
    IF Len(cl) <= WINDOW_7D THEN cl
    ELSE SubSeq(cl, Len(cl) - WINDOW_7D + 1, Len(cl))

High7d(cl) == SeqMax(Prices7d(cl))

Low7d(cl) == SeqMin(Prices7d(cl))

\* the (up to) 168 bars before the current one, candles[-169:-1]
Prices7dBefore(cl) ==
    SubSeq(cl, Max2(1, Len(cl) - WINDOW_7D), Len(cl) - 1)

\* prev = last_*_check if last_*_check else candles[-2]['close']
PrevObserved(last, cl) == IF Truthy(last) THEN last ELSE Close(cl, 2)

BrokeHigh(prev, high, cur) == prev < high /\ cur >= high

BrokeLow(prev, low, cur) == prev > low /\ cur <= low

\* (price // increment) * increment
RoundLevel(price, increment) == (price \div increment) * increment

\* rounding to the nearest level instead of the level below
CrossedRoundNearest(prev, cur, increment) ==
    RoundLevel(cur + increment \div 2, increment)
        # RoundLevel(prev + increment \div 2, increment)

CrossedRound(prev, cur, increment) ==
    RoundLevel(cur, increment) # RoundLevel(prev, increment)

\* for level in levels: (prev < level <= cur) or (prev > level >= cur)
CrossedExplicit(prev, cur, levels) ==
    \E level \in levels :
        (prev < level /\ level <= cur) \/ (prev > level /\ level >= cur)

\* outcomes of a detector's own series fetch
PrimaryOutcomes == {"ok", "http", "format", "exc"}

\* volume_vs_avg, in percent
Volumes == {-60, 0, 150}

\* ------------------------------------------------------------------------
\* check_alert_gold (549-811), after its enabled and cooldown tests
\* ------------------------------------------------------------------------
\* dv is (divergence_1h, 4h, 8h, 24h), in tenths of a percent
TriggerDivergence(dv) ==
    LET short_term_divergence == Abs(dv[1]) > 10 \/ Abs(dv[2]) > 20
        medium_term_divergence == Abs(dv[3]) > 30
        long_term_divergence == Abs(dv[4]) > 40
    IN  short_term_divergence \/ medium_term_divergence \/ long_term_divergence

\* the trigger alone, without the minimum-volume return
FiresNoGuard(too_low, trigger) == trigger

\* if volume_vs_avg < -50: return, then: if <trigger>: ... send_alert
Fires(too_low, trigger) == ~too_low /\ trigger

GoldOkLoose(out, n) == out = "ok"

GoldOk(out, n) == out = "ok" /\ ~(n < WINDOW_7D)

GoldEval(last, out, n, cl, vol, sec, dv) ==
    IF out = "exc" THEN Raises(TRUE)
    ELSE IF ~GoldOk(out, n) THEN PrimaryFail
    ELSE IF sec = "exc" THEN Raises(FALSE)
    ELSE
      LET gold_price == Close(cl, 1)
          high_7d == High7d(cl)
          low_7d == Low7d(cl)
          prev_price == PrevObserved(last, cl)
          broke_high == BrokeHigh(prev_price, high_7d, gold_price)
          broke_low == BrokeLow(prev_price, low_7d, gold_price)
          crossed_level == CrossedRound(prev_price, gold_price, GOLD_LEVEL_STEP)
          \* the divergences stay 0 when the BTC response is not a 200
          trigger_divergence ==
              TriggerDivergence(IF sec = "ok" THEN dv ELSE <<0, 0, 0, 0>>)
          trigger_volume == vol > VOLUME_SPIKE_PCT
          trigger_level_break == broke_high \/ broke_low \/ crossed_level
          too_low == vol < MIN_VOLUME_VS_AVG
          fire == Fires(too_low,
                        trigger_level_break \/ trigger_divergence \/ trigger_volume)
      IN  [Quiet EXCEPT !.fire = fire, !.nsend = IF fire THEN 1 ELSE 0,
                        !.upd = TRUE, !.obs = gold_price,
                        !.cross = crossed_level,
                        !.high = broke_high, !.blow = broke_low,
                        !.low = too_low,
                        !.first = ~Truthy(last),
                        !.prevv = prev_price, !.curv = gold_price,
                        !.multi = (trigger_level_break /\ trigger_divergence)
                                  \/ (trigger_level_break /\ trigger_volume)
                                  \/ (trigger_divergence /\ trigger_volume)]

\* ------------------------------------------------------------------------
\* check_alert_rotation (813-939)
\* ------------------------------------------------------------------------
\* divergence = gold_24h_change - btc_24h_change, in tenths of a percent
RotationDivergences == {0, 24, 25, -40}

RotationOutcomes == {"ok", "http", "zero", "format", "exc"}

RotationEval(out, divergence) ==
    IF out = "exc" THEN Raises(TRUE)
    ELSE IF out # "ok" THEN PrimaryFail
    ELSE LET fire == Abs(divergence) >= ALERT_ROTATION_THRESHOLD_MODERATE
         IN  [Quiet EXCEPT !.fire = fire, !.nsend = IF fire THEN 1 ELSE 0]

\* ------------------------------------------------------------------------
\* check_alert_btc_level (1175-1594)
\* ------------------------------------------------------------------------
\* ctx is what get_market_context returned to the alert body (1480): "ok", or
\* "partial" when its ETH/BTC series is too short for candles[-168] (154), so
\* that eth_btc_ratio is set and eth_btc_trend is still None; formatting the
\* trend (1512) then raises, after the timestamp was set (1320) and before
\* send_alert (1588), and the except clause (1591) ends the call
BtcLevelEval(last, out, n, cl, vol, sec, ctx) ==
    IF out = "exc" THEN Raises(TRUE)
    ELSE IF ~GoldOk(out, n) THEN PrimaryFail
    ELSE IF sec = "exc" THEN Raises(FALSE)
    ELSE
      LET price == Close(cl, 1)
          high_7d == High7d(cl)
          low_7d == Low7d(cl)
          prev_price == PrevObserved(last, cl)
          crossed_round_level ==
              CrossedRound(prev_price, price, ALERT_BTC_ROUND_INCREMENT)
          broke_7d_high == BrokeHigh(prev_price, high_7d, price)
          broke_7d_low == BrokeLow(prev_price, low_7d, price)
          too_low == vol < MIN_VOLUME_VS_AVG
          fire == Fires(too_low,
                        crossed_round_level \/ broke_7d_high \/ broke_7d_low)
          sends == fire /\ ctx = "ok"
      IN  [Quiet EXCEPT !.fire = fire, !.nsend = IF sends THEN 1 ELSE 0,
                        !.raise = fire /\ ~sends,
                        !.upd = TRUE, !.obs = price,
                        !.cross = crossed_round_level,
                        !.high = broke_7d_high, !.blow = broke_7d_low,
                        !.low = too_low,
                        !.first = ~Truthy(last),
                        !.prevv = prev_price, !.curv = price,
                        !.multi = crossed_round_level
                                  /\ (broke_7d_high \/ broke_7d_low)]

\* ------------------------------------------------------------------------
\* check_alert_eth_btc (941-1153)
\* ------------------------------------------------------------------------
\* a volume guard that suppresses when no volume could be read
EthBtcEvalFailClosed(last, out, n, cl, volout, vol) ==
    IF out = "exc" THEN Raises(TRUE)
    ELSE IF ~GoldOk(out, n) THEN PrimaryFail
    ELSE IF volout = "exc" THEN Raises(FALSE)
    ELSE
      LET current_ratio == Close(cl, 1)
          ratio_4h_ago == Close(cl, 4)
          high_7d == High7d(cl)
          low_7d == Low7d(cl)
          eth_volume_vs_avg == IF volout = "ok" THEN vol ELSE -100
          prev_ratio == PrevObserved(last, cl)
          crossed_level == CrossedExplicit(prev_ratio, current_ratio, ALERT_ETH_BTC_LEVELS)
          broke_high == BrokeHigh(prev_ratio, high_7d, current_ratio)
          broke_low == BrokeLow(prev_ratio, low_7d, current_ratio)
          \* abs(ratio_4h_change) >= 3.0
          strong_divergence_4h ==
              100 * Abs(current_ratio - ratio_4h_ago)
                >= ALERT_ETH_BTC_DIVERGENCE_THRESHOLD * ratio_4h_ago
          too_low == eth_volume_vs_avg < ALERT_ETH_BTC_MIN_VOLUME
          fire == Fires(too_low,
                        crossed_level \/ broke_high \/ broke_low
                        \/ strong_divergence_4h)
      IN  [Quiet EXCEPT !.fire = fire, !.nsend = IF fire THEN 1 ELSE 0,
                        !.upd = TRUE, !.obs = current_ratio,
                        !.cross = crossed_level,
                        !.high = broke_high, !.blow = broke_low,
                        !.low = too_low,
                        !.first = ~Truthy(last),
                        !.prevv = prev_ratio, !.curv = current_ratio,
                        !.multi = crossed_level
                                  /\ (broke_high \/ broke_low \/ strong_divergence_4h)]

EthBtcEval(last, out, n, cl, volout, vol) ==
    IF out = "exc" THEN Raises(TRUE)
    ELSE IF ~GoldOk(out, n) THEN PrimaryFail
    ELSE IF volout = "exc" THEN Raises(FALSE)
    ELSE
      LET current_ratio == Close(cl, 1)
          ratio_4h_ago == Close(cl, 4)
          high_7d == High7d(cl)
          low_7d == Low7d(cl)
          \* stays 0 when the volume response is not a 200
          eth_volume_vs_avg == IF volout = "ok" THEN vol ELSE 0
          prev_ratio == PrevObserved(last, cl)
          crossed_level == CrossedExplicit(prev_ratio, current_ratio, ALERT_ETH_BTC_LEVELS)
          broke_high == BrokeHigh(prev_ratio, high_7d, current_ratio)
          broke_low == BrokeLow(prev_ratio, low_7d, current_ratio)
          \* abs(ratio_4h_change) >= 3.0
          strong_divergence_4h ==
              100 * Abs(current_ratio - ratio_4h_ago)
                >= ALERT_ETH_BTC_DIVERGENCE_THRESHOLD * ratio_4h_ago
          too_low == eth_volume_vs_avg < ALERT_ETH_BTC_MIN_VOLUME
          fire == Fires(too_low,
                        crossed_level \/ broke_high \/ broke_low
                        \/ strong_divergence_4h)
      IN  [Quiet EXCEPT !.fire = fire, !.nsend = IF fire THEN 1 ELSE 0,
                        !.upd = TRUE, !.obs = current_ratio,
                        !.cross = crossed_level,
                        !.high = broke_high, !.blow = broke_low,
                        !.low = too_low,
                        !.first = ~Truthy(last),
                        !.prevv = prev_ratio, !.curv = current_ratio,
                        !.multi = crossed_level
                                  /\ (broke_high \/ broke_low \/ strong_divergence_4h)]

\* ------------------------------------------------------------------------
\* check_alert_btc_dominance (1596-1771), after its enabled and cooldown tests
\* ------------------------------------------------------------------------
DomOutcomes == {"ok", "http", "nodata", "exc"}

\* current_dom, in tenths of a percent
DomValues == {535, 550, 570, 580, 590}

\* current_dom - dom_24h_ago, in tenths of a percent
DomChanges == {-5, 0, 3, 5}

LevelZone(current_dom) ==
    IF current_dom < 540 THEN "REVERSE"
    ELSE IF current_dom < 560 THEN "ALT_BUY"
    ELSE IF current_dom < 575 THEN "PREPARE_ALTS"
    ELSE IF current_dom < 585 THEN "PREPARE_BTC"
    ELSE "SELL_ALTS"

\* abs(current_dom - dom_24h_ago) >= ALERT_BTC_DOM_MOMENTUM_THRESHOLD on the
\* binary floats the code holds: of two values between 33.0 and 63.9 that
\* are exactly 0.4 apart, the difference is computed as 0.4000000000000057
\* when the larger one ends in .2 or .7 and as 0.3999999999999986 otherwise
MomentumFloorReached(current_dom, dom_24h_ago) ==
    LET diff == Abs(current_dom - dom_24h_ago)
    IN  IF diff # ALERT_BTC_DOM_MOMENTUM_THRESHOLD
        THEN diff > ALERT_BTC_DOM_MOMENTUM_THRESHOLD
        ELSE Max2(current_dom, dom_24h_ago) % 5 = 2

\* the direction of the change, however small
MomentumBySign(current_dom, dom_24h_ago) ==
    IF Truthy(dom_24h_ago) /\ current_dom # dom_24h_ago
    THEN IF current_dom - dom_24h_ago > 0 THEN "RISING" ELSE "FALLING"
    ELSE "STABLE"

Momentum(current_dom, dom_24h_ago) ==
    IF Truthy(dom_24h_ago)
       /\ MomentumFloorReached(current_dom, dom_24h_ago)
    THEN IF current_dom - dom_24h_ago > 0 THEN "RISING" ELSE "FALLING"
    ELSE "STABLE"

\* alert_reason: one entry per crossed threshold, one for momentum, one for edge
\* the thresholds between the stored value and the current one, an unset
\* stored value counting as 0
DomCrossedFromZero(last, current_dom) ==
    LET from == IF Truthy(last) THEN last ELSE 0
    IN  { t \in ALERT_BTC_DOM_THRESHOLDS :
            (from < t /\ t <= current_dom) \/ (from > t /\ t >= current_dom) }

\* if last_btc_dom_check: for threshold in ALERT_BTC_DOM_THRESHOLDS: ...
DomCrossed(last, current_dom) ==
    IF Truthy(last)
    THEN { t \in ALERT_BTC_DOM_THRESHOLDS :
             (last < t /\ t <= current_dom) \/ (last > t /\ t >= current_dom) }
    ELSE {}

DomReasons(last, current_dom, dom_24h_ago) ==
    LET crossing == { <<"crossed", th>> : th \in DomCrossed(last, current_dom) }
        momentum_shift ==
            IF Truthy(dom_24h_ago)
               /\ MomentumFloorReached(current_dom, dom_24h_ago)
            THEN {<<"momentum", 0>>} ELSE {}
        zone == LevelZone(current_dom)
        mom == Momentum(current_dom, dom_24h_ago)
        edge ==
            IF (zone \in {"SELL_ALTS", "PREPARE_BTC"} /\ mom = "FALLING")
               \/ (zone \in {"ALT_BUY", "PREPARE_ALTS"} /\ mom = "RISING")
            THEN {<<"edge", 0>>} ELSE {}
    IN  crossing \cup momentum_shift \cup edge

\* a send per entry of alert_reason
DomSendsPerReason(reasons) == Cardinality(reasons)

\* if should_alert: ... send_alert(message)
DomSends(reasons) == IF reasons # {} THEN 1 ELSE 0

DomEval(last, out, current_dom, hist, change) ==
    IF out = "exc" THEN Raises(TRUE)
    ELSE IF out # "ok" THEN PrimaryFail
    ELSE IF hist = "exc" THEN Raises(FALSE)
    ELSE
      LET dom_24h_ago == IF hist = "ok" THEN current_dom - change ELSE None
          reasons == DomReasons(last, current_dom, dom_24h_ago)
          should_alert == reasons # {}
      IN  [Quiet EXCEPT !.fire = should_alert, !.nsend = DomSends(reasons),
                        !.upd = TRUE, !.obs = current_dom,
                        !.cross = (\E r \in reasons : r[1] = "crossed"),
                        !.first = ~Truthy(last),
                        !.multi = Cardinality(reasons) > 1]

\* ------------------------------------------------------------------------
\* check_alert_derivatives (1773-1936)
\* ------------------------------------------------------------------------
\* "http": the funding response is not a 200; "http_oi": the open-interest one
DerivOutcomes == {"ok", "http", "http_oi", "exc"}

\* funding_pct, in hundredths of a percent
Fundings == {-9, 0, 9, 11}

\* open interest in thousands of contracts, BTC price in thousands of USD
Contracts == {200, 320}

PricesK == {90, 110}

\* oi_billions * 1000
OiMillions(contracts_k, price_k) == contracts_k * price_k

ShouldAlertDerivatives(funding_pct, oi_millions) ==
    LET extreme_positive_funding == funding_pct >= ALERT_DERIVATIVES_FUNDING_EXTREME
        extreme_negative_funding == funding_pct <= -ALERT_DERIVATIVES_FUNDING_EXTREME
        very_extreme_funding ==
            Abs(funding_pct) >= ALERT_DERIVATIVES_FUNDING_VERY_EXTREME
        high_oi == oi_millions >= ALERT_DERIVATIVES_OI_HIGH * 1000
    IN  (extreme_positive_funding /\ high_oi)
        \/ (extreme_negative_funding /\ high_oi)
        \/ very_extreme_funding

\* the very-extreme test ahead of the two tests that need high open interest
AlertTypeCautionFirst(funding_pct, oi_millions) ==
    LET extreme_positive_funding == funding_pct >= ALERT_DERIVATIVES_FUNDING_EXTREME
        extreme_negative_funding == funding_pct <= -ALERT_DERIVATIVES_FUNDING_EXTREME
        very_extreme_funding ==
            Abs(funding_pct) >= ALERT_DERIVATIVES_FUNDING_VERY_EXTREME
        high_oi == oi_millions >= ALERT_DERIVATIVES_OI_HIGH * 1000
    IN  IF very_extreme_funding
        THEN IF funding_pct > 0 THEN "EXTREME BULLISH FUNDING"
             ELSE "EXTREME BEARISH FUNDING"
        ELSE IF extreme_positive_funding /\ high_oi THEN "DANGER ZONE - TOP RISK"
        ELSE IF extreme_negative_funding /\ high_oi
        THEN "OPPORTUNITY - BOTTOM SIGNAL"
        ELSE "none"

\* alert_type of the if / elif / elif chain (1860-1890); "none" when
\* should_alert stays False
AlertType(funding_pct, oi_millions) ==
    LET extreme_positive_funding == funding_pct >= ALERT_DERIVATIVES_FUNDING_EXTREME
        extreme_negative_funding == funding_pct <= -ALERT_DERIVATIVES_FUNDING_EXTREME
        very_extreme_funding ==
            Abs(funding_pct) >= ALERT_DERIVATIVES_FUNDING_VERY_EXTREME
        high_oi == oi_millions >= ALERT_DERIVATIVES_OI_HIGH * 1000
    IN  IF extreme_positive_funding /\ high_oi THEN "DANGER ZONE - TOP RISK"
        ELSE IF extreme_negative_funding /\ high_oi
        THEN "OPPORTUNITY - BOTTOM SIGNAL"
        ELSE IF very_extreme_funding
        THEN IF funding_pct > 0 THEN "EXTREME BULLISH FUNDING"
             ELSE "EXTREME BEARISH FUNDING"
        ELSE "none"

DerivativesEval(out, funding_pct, contracts_k, priceout, price_k) ==
    IF out = "exc" THEN Raises(TRUE)
    ELSE IF out # "ok" THEN PrimaryFail
    ELSE IF priceout = "exc" THEN Raises(FALSE)
    ELSE
      LET btc_k == IF priceout = "ok" THEN price_k ELSE FALLBACK_BTC_PRICE_K
          fire == ShouldAlertDerivatives(funding_pct, OiMillions(contracts_k, btc_k))
      IN  [Quiet EXCEPT !.fire = fire, !.nsend = IF fire THEN 1 ELSE 0]

\* ------------------------------------------------------------------------
\* Levels, as the crossing claims speak of them
\* ------------------------------------------------------------------------
\* gold and BTC levels are the multiples of the increment the code divides by;
\* ETH/BTC levels are ALERT_ETH_BTC_LEVELS
Increment(d) == IF d = "gold" THEN GOLD_LEVEL_STEP ELSE ALERT_BTC_ROUND_INCREMENT

\* a level lies strictly between the two values
StrictCross(d, p, c) ==
    LET lo == Min2(p, c)
        hi == Max2(p, c)
    IN  IF d = "eth" THEN \E v \in ALERT_ETH_BTC_LEVELS : lo < v /\ v < hi
        ELSE hi > lo /\ ((hi - 1) \div Increment(d)) * Increment(d) > lo

\* both values lie strictly inside the same interval between two levels
StrictSame(d, p, c) ==
    LET lo == Min2(p, c)
        hi == Max2(p, c)
    IN  IF d = "eth" THEN \A v \in ALERT_ETH_BTC_LEVELS : v < lo \/ v > hi
        ELSE (hi \div Increment(d)) * Increment(d) < lo

\* ------------------------------------------------------------------------
\* Inputs the environment offers to one cycle
\* ------------------------------------------------------------------------
\* closes of PAXG/USD
GoldPrices == {3990, 4000, 4010, 4040}

\* closes of BTC/USD
BtcPrices == {99000, 100000, 100500, 101500}

\* closes of ETH/BTC, in thousandths
EthPrices == {38, 40, 41, 43}

\* what the later fetches of a call return when they are not reached
NoDivergence == <<0, 0, 0, 0>>

\* volume_vs_avg with the secondary fetch and the divergences it carries
GoldConditions ==
    {<<v, "ok", NoDivergence>> : v \in Volumes}
    \cup {<<0, "ok", <<11, 0, 0, 0>>>>, <<150, "ok", <<0, 0, 0, 41>>>>,
          <<0, "http", NoDivergence>>, <<0, "exc", NoDivergence>>}

\* volume_vs_avg with the secondary fetch and the market context
BtcConditions ==
    {<<v, "ok", "ok">> : v \in Volumes}
    \cup {<<0, "http", "ok">>, <<0, "exc", "ok">>, <<0, "ok", "partial">>}

\* a secondary fetch together with what it carries
EthSecondary == {<<"ok", v>> : v \in Volumes} \cup {<<"http", 0>>, <<"exc", 0>>}

DomSecondary == {<<"ok", ch>> : ch \in DomChanges} \cup {<<"http", 0>>, <<"exc", 0>>}

DerivSecondary ==
    {<<"ok", p>> : p \in PricesK}
    \cup {<<"http", FALLBACK_BTC_PRICE_K>>, <<"exc", FALLBACK_BTC_PRICE_K>>}

GoldInputs ==
    {[out |-> o, n |-> WINDOW_7D, cl |-> <<4010, 4010, 4010>>, vol |-> 0,
      sec |-> "ok", dv |-> NoDivergence] : o \in PrimaryOutcomes \ {"ok"}}
    \cup {[out |-> "ok", n |-> WINDOW_7D - 1, cl |-> <<4010, 4010, 4010>>, vol |-> 0,
           sec |-> "ok", dv |-> NoDivergence]}
    \cup {[out |-> "ok", n |-> WINDOW_7D, cl |-> <<4010, prev, cur>>, vol |-> c[1],
           sec |-> c[2], dv |-> c[3]] :
            prev \in {3990, 4040}, cur \in GoldPrices, c \in GoldConditions}

RotationInputs ==
    {[out |-> o, divergence |-> 0] : o \in RotationOutcomes \ {"ok"}}
    \cup {[out |-> "ok", divergence |-> dv] : dv \in RotationDivergences}

BtcInputs ==
    {[out |-> o, n |-> WINDOW_7D, cl |-> <<100500, 100500, 100500>>, vol |-> 0,
      sec |-> "ok", ctx |-> "ok"] : o \in PrimaryOutcomes \ {"ok"}}
    \cup {[out |-> "ok", n |-> WINDOW_7D - 1, cl |-> <<100500, 100500, 100500>>,
           vol |-> 0, sec |-> "ok", ctx |-> "ok"]}
    \cup {[out |-> "ok", n |-> WINDOW_7D, cl |-> <<100500, prev, cur>>, vol |-> c[1],
           sec |-> c[2], ctx |-> c[3]] :
            prev \in {99000, 101500}, cur \in BtcPrices, c \in BtcConditions}

EthInputs ==
    {[out |-> o, n |-> WINDOW_7D, cl |-> <<41, 41, 41, 41>>, volout |-> "ok",
      vol |-> 0] : o \in PrimaryOutcomes \ {"ok"}}
    \cup {[out |-> "ok", n |-> WINDOW_7D - 1, cl |-> <<41, 41, 41, 41>>,
           volout |-> "ok", vol |-> 0]}
    \cup {[out |-> "ok", n |-> WINDOW_7D, cl |-> <<41, 41, prev, cur>>,
           volout |-> sv[1], vol |-> sv[2]] :
            prev \in {38, 43}, cur \in EthPrices, sv \in EthSecondary}

DomInputs ==
    {[out |-> o, current_dom |-> 550, hist |-> "ok", change |-> 0] :
        o \in DomOutcomes \ {"ok"}}
    \cup {[out |-> "ok", current_dom |-> c, hist |-> sc[1], change |-> sc[2]] :
            c \in DomValues, sc \in DomSecondary}

DerivInputs ==
    {[out |-> o, funding_pct |-> 0, contracts_k |-> 200, priceout |-> "ok",
      price_k |-> 90] : o \in DerivOutcomes \ {"ok"}}
    \cup {[out |-> "ok", funding_pct |-> f, contracts_k |-> c, priceout |-> sp[1],
           price_k |-> sp[2]] :
            f \in Fundings, c \in Contracts, sp \in DerivSecondary}

\* the one answer of an instrument that is unreachable in this run
Reach(d, act, inputs) ==
    IF d \in act THEN inputs ELSE {i \in inputs : i.out = "http"}

\* which detectors' instruments are reachable and moving in a run
Regimes ==
    {{d} : d \in Detectors} \cup {{"acc", "mom", "spike"}, {"spike", "rot"}}

\* outcomes of get_cryptocompare_data and of the tests that follow it
TopOutcomes == {"ok", "none", "format", "short"}

\* ------------------------------------------------------------------------
\* A call of check_alert_<d> from check_all_signals
\* ------------------------------------------------------------------------
\* one timer shared by all detectors
FiredUpdateShared(lt, d, t) == [x \in DOMAIN lt |-> t]

\* last_alert_<d>_time = get_montevideo_time()
FiredUpdate(lt, d, t) == [lt EXCEPT ![d] = t]

\* no cooldown at all
CooldownOkAlways(d, last, t) == TRUE

CooldownOk(d, last, t) ==
    IF d = "dom" THEN DomCooldown(last, t)
    ELSE CheckCooldown(last, Cooldown(d), t)

\* the three functions without a try/except: their exception leaves the
\* function and is caught by check_all_signals, which ends the cycle
Unguarded == MinuteDets

\* the body of check_alert_<d> past its enabled and cooldown tests
Body(d, last, w, inp) ==
    CASE d \in MinuteDets -> MinuteEval(d, w.c, w.price)
      [] d = "gold" ->
            GoldEval(last, inp.gold.out, inp.gold.n, inp.gold.cl, inp.gold.vol,
                     inp.gold.sec, inp.gold.dv)
      [] d = "rot" -> RotationEval(inp.rot.out, inp.rot.divergence)
      [] d = "btc" ->
            BtcLevelEval(last, inp.btc.out, inp.btc.n, inp.btc.cl, inp.btc.vol,
                         inp.btc.sec, inp.btc.ctx)
      [] d = "eth" ->
            EthBtcEval(last, inp.eth.out, inp.eth.n, inp.eth.cl, inp.eth.volout,
                       inp.eth.vol)
      [] d = "dom" ->
            DomEval(last, inp.dom.out, inp.dom.current_dom, inp.dom.hist,
                    inp.dom.change)
      [] d = "deriv" ->
            DerivativesEval(inp.deriv.out, inp.deriv.funding_pct,
                            inp.deriv.contracts_k, inp.deriv.priceout,
                            inp.deriv.price_k)

\* the detector's own series is missing, too short or malformed
PrimaryFailed(d, e, inp) ==
    IF d \in MinuteDets THEN e.raise
    ELSE \/ inp[d].out # "ok"
         \/ d \in CrossDets /\ inp[d].n < WINDOW_7D

\* one of the detector's other fetches failed
SecondaryFailed(d, inp) ==
    CASE d = "gold" -> inp.gold.sec # "ok"
      [] d = "btc" -> inp.btc.sec # "ok"
      [] d = "eth" -> inp.eth.volout # "ok"
      [] d = "dom" -> inp.dom.hist # "ok"
      [] d = "deriv" -> inp.deriv.priceout # "ok"
      [] OTHER -> FALSE

\* what is recorded of a detector that was not called
NoRes ==
    [called |-> FALSE, blocked |-> FALSE, trig |-> FALSE, fired |-> FALSE,
     handed |-> FALSE, exact |-> FALSE, upd |-> FALSE, avail |-> FALSE,
     raise |-> FALSE, pfail |-> FALSE,
     sfail |-> FALSE, cross |-> FALSE, low |-> FALSE, first |-> FALSE,
     cx |-> FALSE, same |-> FALSE, multi |-> FALSE,
     brk |-> <<FALSE, FALSE>>, brkx |-> <<FALSE, FALSE>>]

\* the globals and the record of the cycle before its first detector call
Start(lt, lo, hv) ==
    [lt |-> lt, lo |-> lo, hv |-> hv, dead |-> FALSE,
     sent |-> [d \in Detectors |-> 0],
     res |-> [d \in Detectors |-> NoRes]]

\* st after the call of detector d at time t; nothing is called once an
\* exception has reached the except clause of check_all_signals
Step(st, d, t, w, inp) ==
    IF st.dead THEN st
    ELSE
      LET last == IF d \in ObsDets THEN st.lo[d] ELSE None
          cool == CooldownOk(d, st.lt[d], t)
      IN  \* e is the body's result, computed once
          CHOOSE r \in {
      LET eff == IF Enabled(d) /\ cool THEN e ELSE Quiet
          compared == d \in CrossDets /\ eff.curv # None
          same == compared /\ StrictSame(d, eff.prevv, eff.curv)
      IN  [lt |-> IF eff.fire THEN FiredUpdate(st.lt, d, t) ELSE st.lt,
           lo |-> IF eff.upd THEN [st.lo EXCEPT ![d] = eff.obs] ELSE st.lo,
           hv |-> IF compared
                  THEN [st.hv EXCEPT ![d] =
                          IF @ # "left" /\ same THEN "in" ELSE "left"]
                  ELSE st.hv,
           dead |-> eff.raise /\ d \in Unguarded,
           sent |-> [st.sent EXCEPT ![d] = @ + eff.nsend],
           res |-> [st.res EXCEPT ![d] =
                      [called |-> TRUE,
                       blocked |-> Enabled(d) /\ ~cool,
                       trig |-> e.fire,
                       \* the trigger branch was taken: the event exists
                       fired |-> eff.fire,
                       \* send_alert was called with it
                       handed |-> eff.nsend > 0,
                       exact |-> st.lt[d] # None /\ t - st.lt[d] = Cooldown(d),
                       upd |-> eff.upd,
                       \* the detector's own series is there to be fetched
                       avail |-> d \in ObsDets /\ ~PrimaryFailed(d, e, inp),
                       raise |-> eff.raise,
                       pfail |-> Enabled(d) /\ cool /\ PrimaryFailed(d, e, inp),
                       sfail |-> Enabled(d) /\ cool /\ ~PrimaryFailed(d, e, inp)
                                 /\ SecondaryFailed(d, inp),
                       cross |-> eff.cross,
                       low |-> eff.low,
                       first |-> eff.first,
                       cx |-> compared /\ StrictCross(d, eff.prevv, eff.curv),
                       same |-> same,
                       multi |-> eff.multi,
                       \* the new-high and new-low flags the code computed
                       brk |-> <<eff.high, eff.blow>>,
                       \* the same tests against the bars before the current one
                       brkx |-> IF compared
                                THEN <<BrokeHigh(eff.prevv,
                                                 SeqMax(Prices7dBefore(inp[d].cl)),
                                                 eff.curv),
                                       BrokeLow(eff.prevv,
                                                SeqMin(Prices7dBefore(inp[d].cl)),
                                                eff.curv)>>
                                ELSE <<FALSE, FALSE>>]]]
          : e \in {Body(d, last, w, inp)} } : TRUE

\* ------------------------------------------------------------------------
\* The process: run_buy_signal_loop calls check_all_signals once per cycle
\* ------------------------------------------------------------------------
InitGlobals ==
    /\ now = 0
    /\ lastTime = [d \in Detectors |-> None]
    /\ lastObs = [d \in ObsDets |-> None]
    /\ active \in Regimes
    /\ topfetch = "none"
    /\ evald = {}
    /\ raised = {}
    /\ sent = [d \in Detectors |-> 0]
    /\ res = [d \in Detectors |-> NoRes]
    /\ hover = [d \in CrossDets |-> "none"]
    /\ series = <<>>
    /\ fires = {}

\* no call is inside its trigger branch
NoPend == [d |-> "none"]

\* outside the scenarios nothing is probed and no cycle is in progress
InitAux ==
    /\ probe = <<>>
    /\ answer = "none"
    /\ phase = "Idle"
    /\ pos = 0
    /\ win = <<>>
    /\ pend = NoPend
    /\ outcome = "none"

Init == InitGlobals /\ InitAux

\* the globals and the record of the cycle after check_all_signals returned
Finish(st) ==
    /\ lastTime' = st.lt
    /\ lastObs' = st.lo
    /\ hover' = st.hv
    /\ sent' = st.sent
    /\ res' = st.res
    /\ evald' = {d \in Detectors : st.res[d].called}
    /\ raised' = {d \in Detectors : st.res[d].raise}

\* what the environment offers in each regime
Offered ==
    [act \in Regimes |->
        [windows |-> WindowsFor(act),
         gold |-> Reach("gold", act, GoldInputs),
         rot |-> Reach("rot", act, RotationInputs),
         btc |-> Reach("btc", act, BtcInputs),
         eth |-> Reach("eth", act, EthInputs),
         dom |-> Reach("dom", act, DomInputs),
         deriv |-> Reach("deriv", act, DerivInputs)]]

\* the answers x of the requests of the detector that is called
InputOf(x) ==
    [k \in {"gold", "rot", "btc", "eth", "dom", "deriv"} |-> x]

\* the nine calls of check_all_signals (1968-1977), in order
\* each detector makes its own requests when it is called: off holds what
\* they may answer
RunDetectors(t, w, off) ==
    \E s1 \in {Step(Start(lastTime, lastObs, hover), "acc", t, w, <<>>)} :
    \E s2 \in {Step(s1, "mom", t, w, <<>>)} :
    \E s3 \in {Step(s2, "spike", t, w, <<>>)} :
    \E g \in off.gold : \E s4 \in {Step(s3, "gold", t, w, InputOf(g))} :
    \E r \in off.rot : \E s5 \in {Step(s4, "rot", t, w, InputOf(r))} :
    \E b \in off.btc : \E s6 \in {Step(s5, "btc", t, w, InputOf(b))} :
    \E e \in off.eth : \E s7 \in {Step(s6, "eth", t, w, InputOf(e))} :
    \E m \in off.dom : \E s8 \in {Step(s7, "dom", t, w, InputOf(m))} :
    \E v \in off.deriv : \E s9 \in {Step(s8, "deriv", t, w, InputOf(v))} :
        Finish(s9)

\* one cycle of the loop: check_all_signals at the time the cycle starts
CheckAllSignals ==
    /\ \E dt \in TimeSteps :
         /\ now + dt <= MaxTime
         /\ now' = now + dt
    /\ \E top \in TopOutcomes :
         /\ topfetch' = top
         /\ IF top # "ok"
            THEN Finish(Start(lastTime, lastObs, hover))
            ELSE \E w \in Offered[active].windows :
                   RunDetectors(now', w, Offered[active])
    /\ UNCHANGED <<active, series, fires>>
    /\ UNCHANGED aux

Next == CheckAllSignals

Spec == Init /\ [][Next]_vars

\* ------------------------------------------------------------------------
\* Rising-series scenario: an hourly PAXG series that grows by one strictly
\* higher bar per cycle, everything else about the gold detector neutral
\* ------------------------------------------------------------------------
\* first close of the series
RisingStarts == {3901, 4001}

\* rise per bar
RisingSteps == {1, 2}

\* minutes between two hourly bars
BarMinutes == 60

FlatWindow == Window(1000, 1000, 1000, 1000, 1000, 1000, 1000)

RisingInput(cl) ==
    [gold |-> [out |-> "ok", n |-> Len(cl), cl |-> cl, vol |-> 0, sec |-> "ok",
               dv |-> NoDivergence]]

InitRising ==
    /\ Init
    /\ active = {"gold"}

\* one cycle of check_alert_gold on the series extended by one bar
FeedBar ==
    /\ Len(series) <= WINDOW_7D
    /\ \E v \in (IF series = <<>> THEN RisingStarts
                 ELSE IF Len(series) = 1
                      THEN {series[1] + k : k \in RisingSteps}
                      ELSE {2 * series[Len(series)] - series[Len(series) - 1]}) :
         series' = Append(series, v)
    /\ now' = now + BarMinutes
    /\ topfetch' = "ok"
    /\ \E st \in {Step(Start(lastTime, lastObs, hover), "gold", now', FlatWindow,
                       RisingInput(series'))} :
         /\ Finish(st)
         /\ fires' = IF st.res["gold"].fired
                        /\ Body("gold", lastObs["gold"], FlatWindow,
                                RisingInput(series')).high
                     THEN fires \cup {Len(series')}
                     ELSE fires
    /\ UNCHANGED active
    /\ UNCHANGED aux

NextRising == FeedBar

SpecRising == InitRising /\ [][NextRising]_vars

\* ------------------------------------------------------------------------
\* Momentum scenario: check_alert_momentum on a minute series given by the
\* change of each of its four five-minute blocks
\* ------------------------------------------------------------------------
\* change of the close over one block, in USD on a close near 1000
BlockDeltas == {-3, -2, 0, 2, 3}

\* candles[-20], the start of the oldest block
MomentumBase == 1000

\* the series whose blocks, oldest first, change by d3, d2, d1, d0
MomentumWindow(d3, d2, d1, d0) ==
    Window(MomentumBase, MomentumBase, MomentumBase, MomentumBase + d3,
           MomentumBase + d3 + d2, MomentumBase + d3 + d2 + d1,
           MomentumBase + d3 + d2 + d1 + d0)

MomentumWindows ==
    {MomentumWindow(d3, d2, d1, d0) :
        d3 \in BlockDeltas, d2 \in BlockDeltas, d1 \in BlockDeltas,
        d0 \in BlockDeltas}

\* minutes between two calls
MomentumSteps == {30, 60}

InitMomentum ==
    /\ InitGlobals
    /\ active = {"mom"}
    /\ probe \in MomentumWindows
    /\ answer = "none"
    /\ phase = "Idle"
    /\ pos = 0
    /\ win = <<>>
    /\ pend = NoPend
    /\ outcome = "none"

\* one call of check_alert_momentum(candles, btc_price) on the probed series
CallMomentum ==
    /\ \E dt \in MomentumSteps :
         /\ now + dt <= MaxTime
         /\ now' = now + dt
    /\ topfetch' = "ok"
    /\ \E st \in {Step(Start(lastTime, lastObs, hover), "mom", now', probe, <<>>)} :
         /\ Finish(st)
         /\ answer' = IF st.res["mom"].handed THEN "sent" ELSE "quiet"
    /\ UNCHANGED <<active, series, fires, probe, phase, pos, win, pend, outcome>>

SpecMomentum == InitMomentum /\ [][CallMomentum]_vars

\* ------------------------------------------------------------------------
\* Derivatives scenario: check_alert_derivatives on a funding rate and an
\* open interest that stay the same from call to call
\* ------------------------------------------------------------------------
\* funding_pct, in hundredths of a percent
FundingProbes == -12..12

\* open interest in thousands of contracts, BTC price in thousands of USD:
\* from 18 to 38.5 billion USD, with 30 and 35 billion exactly
ContractProbes == {200, 300, 320, 350}

PriceProbes == {90, 100, 110}

\* minutes between two calls
DerivativesSteps == {180, 360}

DerivativesInput(pr) ==
    [deriv |-> [out |-> "ok", funding_pct |-> pr.funding_pct,
                contracts_k |-> pr.contracts_k, priceout |-> "ok",
                price_k |-> pr.price_k]]

InitDerivatives ==
    /\ InitGlobals
    /\ active = {"deriv"}
    /\ probe \in [funding_pct : FundingProbes, contracts_k : ContractProbes,
                   price_k : PriceProbes]
    /\ answer = "none"
    /\ phase = "Idle"
    /\ pos = 0
    /\ win = <<>>
    /\ pend = NoPend
    /\ outcome = "none"

\* one call of check_alert_derivatives on the probed market
CallDerivatives ==
    /\ \E dt \in DerivativesSteps :
         /\ now + dt <= MaxTime
         /\ now' = now + dt
    /\ topfetch' = "ok"
    /\ \E st \in {Step(Start(lastTime, lastObs, hover), "deriv", now', <<>>,
                       DerivativesInput(probe))} :
         Finish(st)
    /\ answer' = AlertType(probe.funding_pct,
                           OiMillions(probe.contracts_k, probe.price_k))
    /\ UNCHANGED <<active, series, fires, probe, phase, pos, win, pend, outcome>>

SpecDerivatives == InitDerivatives /\ [][CallDerivatives]_vars

\* ------------------------------------------------------------------------
\* Properties
\* ------------------------------------------------------------------------
\* the detectors check_all_signals calls after d
Later(d) ==
    {Order[j] : j \in {k \in 1..Len(Order) : \E i \in 1..(k - 1) : Order[i] = d}}

\* the detectors that operate on an instrument other than the BTC minute series
OtherInstrumentDets == {"gold", "rot", "eth", "dom", "deriv"}

C2_IsolationOnFetchFailure ==
    (now > 0 /\ topfetch # "ok") => OtherInstrumentDets \subseteq evald

\* C3 - a failing detector does not abort the others: when the evaluation of
\* a detector raises an exception, every detector after it is still evaluated
\* in that cycle.
C3_FailingDetectorDoesNotAbort ==
    \A d \in raised : Later(d) \subseteq evald

C6_FirstRunBaselineOnly ==
    \A d \in ObsDets : res[d].first => ~(res[d].fired /\ res[d].cross)

\* C6 as amended - with no last-observed value stored, the dominance detector
\* finds no crossing; gold, BTC and ETH/BTC compare the current value with the
\* previous hourly bar and emit a crossing event only when a level separates
\* the two; all four record the current value.
C6_FirstRunComparesPreviousBar ==
    /\ res["dom"].first => ~res["dom"].cross
    /\ \A d \in CrossDets :
         (res[d].first /\ res[d].fired /\ res[d].cross) => ~res[d].same
    /\ \A d \in ObsDets : res[d].first => (res[d].upd /\ lastObs[d] # None)

\* a first evaluation that emits a crossing event against the previous bar
C6_Witness ==
    \E d \in CrossDets : res[d].first /\ res[d].fired /\ res[d].cross /\ res[d].cx

C8_AtMostOneEventPerCycle ==
    \A d \in Detectors : sent[d] <= 1

\* several trigger conditions at once, one event
C8_Witness ==
    \E d \in Detectors : res[d].multi /\ sent[d] = 1

\* C9 - no shared cooldown: a detector's last-fired timestamp changes only in
\* a cycle in which it fired itself, its last-observed value only in a cycle
\* in which it recorded one itself, and it is in cooldown exactly when less
\* than its own cooldown has elapsed since its own last firing.
C9_NoSharedCooldown ==
    [][\A d \in Detectors :
         /\ lastTime'[d] # lastTime[d] => res'[d].fired
         /\ (d \in ObsDets /\ lastObs'[d] # lastObs[d]) => res'[d].upd
         /\ res'[d].called =>
              (res'[d].blocked <=>
                 (lastTime[d] # None /\ now' - lastTime[d] < Cooldown(d)))]_vars

\* a detector fires while another one keeps the timestamp of an earlier cycle
C9_Witness ==
    \E d \in Detectors, e \in Detectors :
        /\ d # e
        /\ res[d].fired
        /\ lastTime[e] # None /\ lastTime[e] < now
        /\ res[e].blocked

\* C10 - a strictly rising series of W+1 bars, one bar per cycle, fires the
\* new-high break exactly once, at bar W+1, the bar that exceeds the maximum
\* of the W bars before it.
C10_RisingSeriesFiresOnceAtLastBar ==
    Len(series) = WINDOW_7D + 1 => fires = {WINDOW_7D + 1}

\* C11 - the extremum window excludes the current bar: the new-high and
\* new-low flags a crossing detector computes are those of the tests
\* previous < max <= current and previous > min >= current against the 168
\* bars before the current bar.
C11_WindowExcludesCurrentBar ==
    \A d \in CrossDets : res[d].upd => res[d].brk = res[d].brkx

\* the blocks of the probed series that rose, and those that fell
UpBlocks ==
    {i \in Blocks : BlockEnd(probe.c, probe.price, i) > BlockStart(probe.c, probe.price, i)}

DownBlocks ==
    {i \in Blocks : BlockEnd(probe.c, probe.price, i) < BlockStart(probe.c, probe.price, i)}

\* every block changed by at least min_change percent
AllBlocksMeetMinChange ==
    \A i \in Blocks :
        1000 * Abs(BlockEnd(probe.c, probe.price, i) - BlockStart(probe.c, probe.price, i))
            >= ALERT_MOMENTUM_MIN_CHANGE * BlockStart(probe.c, probe.price, i)

\* K-1 blocks moved one way and the remaining one the other way or not at all
OneBlockAgainst ==
    \/ Cardinality(UpBlocks) = ALERT_MOMENTUM_COUNT - 1
    \/ Cardinality(DownBlocks) = ALERT_MOMENTUM_COUNT - 1

AllBlocksOneWay ==
    \/ Cardinality(UpBlocks) = ALERT_MOMENTUM_COUNT
    \/ Cardinality(DownBlocks) = ALERT_MOMENTUM_COUNT

\* C12 - momentum strictness: enabled and out of its cooldown, the momentum
\* detector does not fire when K-1 blocks move one way and one block moves the
\* other way or not at all, and fires when all K blocks move the same way and
\* each changes by at least min_change percent.
C12_MomentumStrictness ==
    (res["mom"].called /\ Enabled("mom") /\ ~res["mom"].blocked) =>
        /\ OneBlockAgainst => (~res["mom"].fired /\ sent["mom"] = 0)
        /\ (AllBlocksOneWay /\ AllBlocksMeetMinChange) =>
              (res["mom"].fired /\ sent["mom"] = 1)

\* three large blocks one way and a large one against them: no event
C12_Witness ==
    /\ res["mom"].called /\ ~res["mom"].blocked
    /\ OneBlockAgainst /\ AllBlocksMeetMinChange
    /\ Cardinality(UpBlocks) + Cardinality(DownBlocks) = ALERT_MOMENTUM_COUNT
    /\ answer = "quiet"

\* the buckets of the probed funding rate and open interest
ExtremePositiveRate ==
    probe.funding_pct >= ALERT_DERIVATIVES_FUNDING_EXTREME

ExtremeNegativeRate ==
    probe.funding_pct <= -ALERT_DERIVATIVES_FUNDING_EXTREME

VeryExtremeRate ==
    Abs(probe.funding_pct) >= ALERT_DERIVATIVES_FUNDING_VERY_EXTREME

HighMagnitude ==
    OiMillions(probe.contracts_k, probe.price_k) >= ALERT_DERIVATIVES_OI_HIGH * 1000

\* the class a very-extreme rate gets by its sign
DirectionalCaution ==
    IF probe.funding_pct > 0 THEN "EXTREME BULLISH FUNDING"
    ELSE "EXTREME BEARISH FUNDING"

\* the classes of the composite classification, "none" being the healthy one
AlertTypes ==
    {"DANGER ZONE - TOP RISK", "OPPORTUNITY - BOTTOM SIGNAL",
     "EXTREME BULLISH FUNDING", "EXTREME BEARISH FUNDING", "none"}

\* C13 as written - the classification is a total map; an extreme-positive
\* rate with high magnitude gives the danger class, an extreme-negative rate
\* with high magnitude the opportunity class, a very-extreme rate the
\* directional caution class regardless of magnitude, and a rate that is not
\* extreme with a magnitude that is not high gives no alert.
C13_ClassificationAsWritten ==
    res["deriv"].called =>
        /\ answer \in AlertTypes
        /\ (ExtremePositiveRate /\ ~VeryExtremeRate /\ HighMagnitude) =>
              answer = "DANGER ZONE - TOP RISK"
        /\ (ExtremeNegativeRate /\ ~VeryExtremeRate /\ HighMagnitude) =>
              answer = "OPPORTUNITY - BOTTOM SIGNAL"
        /\ VeryExtremeRate => answer = DirectionalCaution
        /\ (~ExtremePositiveRate /\ ~ExtremeNegativeRate /\ ~HighMagnitude) =>
              answer = "none"

\* C13 as amended - the classification is a total map; an extreme-positive
\* rate with high magnitude gives the danger class and an extreme-negative
\* rate with high magnitude the opportunity class, very-extreme rates
\* included; a very-extreme rate never gives "no alert", and gives the
\* directional caution class when the magnitude is not high; a rate that is
\* not very extreme with a magnitude that is not high gives no alert.
C13_ClassificationTotalMap ==
    res["deriv"].called =>
        /\ answer \in AlertTypes
        /\ (ExtremePositiveRate /\ HighMagnitude) => answer = "DANGER ZONE - TOP RISK"
        /\ (ExtremeNegativeRate /\ HighMagnitude) =>
              answer = "OPPORTUNITY - BOTTOM SIGNAL"
        /\ VeryExtremeRate => answer # "none"
        /\ (VeryExtremeRate /\ ~HighMagnitude) => answer = DirectionalCaution
        /\ (~VeryExtremeRate /\ ~HighMagnitude) => answer = "none"

\* a very-extreme rate with high magnitude, classified as danger
C13_Witness ==
    /\ res["deriv"].called
    /\ VeryExtremeRate /\ HighMagnitude /\ probe.funding_pct > 0
    /\ answer = "DANGER ZONE - TOP RISK"

\* the healthy quadrant: magnitude below high and a rate that is not very
\* extreme
HealthyQuadrant == ~HighMagnitude /\ ~VeryExtremeRate

\* C14 - out of its cooldown, the derivatives detector fires on every
\* quadrant but the healthy one, the quadrant of high magnitude with a
\* near-neutral rate included, and stays silent on the healthy one.
C14_FiresOnEveryNonHealthyQuadrant ==
    (res["deriv"].called /\ ~res["deriv"].blocked) =>
        (res["deriv"].fired <=> ~HealthyQuadrant)


-----------------------------------------------------------------------------
\* The leverage interpretation of the morning report (crypto_monitor.py)

\* average funding rate in units of 0.00001 (0.001 %), with every threshold
\* of get_funding_rate and one value on each side of it
RateProbes == {-70, -51, -50, -49, -30, -20, -10, 0, 10, 20, 30, 31, 50, 51, 70}

\* total open interest in billions of USD, around 15, 25 and 35
OiProbes == {10, 15, 16, 20, 25, 26, 35, 36}

\* risk_level of get_funding_rate
FundingRisk(rate) ==
    IF rate > 50 THEN "HIGH"
    ELSE IF rate > 30 THEN "MODERATE"
    ELSE IF rate > 10 THEN "LOW"
    ELSE IF rate > -10 THEN "LOW"
    ELSE IF rate > -30 THEN "LOW"
    ELSE IF rate > -50 THEN "MODERATE"
    ELSE "HIGH"

\* volatility of get_open_interest
OiVolatility(oi_billions) ==
    IF oi_billions > 35 THEN "VERY HIGH"
    ELSE IF oi_billions > 25 THEN "HIGH"
    ELSE IF oi_billions > 15 THEN "MODERATE"
    ELSE "LOW"

\* the MODERATE funding test placed before the LOW open-interest test
InterpretLeverageCautionFirst(f_ok, oi_ok, funding_risk, oi_volatility, rate) ==
    IF ~f_ok \/ ~oi_ok THEN "none"
    ELSE IF funding_risk = "HIGH" /\ oi_volatility \in {"HIGH", "VERY HIGH"}
    THEN IF rate > 0 THEN "DANGER ZONE - TOP RISK"
         ELSE "OPPORTUNITY - BOTTOM SIGNAL"
    ELSE IF funding_risk = "MODERATE" THEN "CAUTION"
    ELSE IF oi_volatility = "LOW" THEN "BORING MARKET"
    ELSE "HEALTHY"

\* condition of interpret_leverage_conditions; "none" is the None returned
\* when one of the two fetches gave nothing
InterpretLeverageConditions(f_ok, oi_ok, funding_risk, oi_volatility, rate) ==
    IF ~f_ok \/ ~oi_ok THEN "none"
    ELSE IF funding_risk = "HIGH" /\ oi_volatility \in {"HIGH", "VERY HIGH"}
    THEN IF rate > 0 THEN "DANGER ZONE - TOP RISK"
         ELSE "OPPORTUNITY - BOTTOM SIGNAL"
    ELSE IF oi_volatility = "LOW" THEN "BORING MARKET"
    ELSE IF funding_risk = "MODERATE" THEN "CAUTION"
    ELSE "HEALTHY"

InitLeverage ==
    /\ InitGlobals
    /\ active = {"deriv"}    \* the report runs no detector
    /\ probe \in [rate : RateProbes, oi_billions : OiProbes,
                   funding_ok : BOOLEAN, oi_ok : BOOLEAN]
    /\ answer = "none"
    /\ phase = "Idle"
    /\ pos = 0
    /\ win = <<>>
    /\ pend = NoPend
    /\ outcome = "none"

\* the morning report fetches both and interprets them
InterpretLeverage ==
    /\ phase = "Idle"
    /\ phase' = "Done"
    /\ answer' = InterpretLeverageConditions(probe.funding_ok, probe.oi_ok,
                     FundingRisk(probe.rate), OiVolatility(probe.oi_billions),
                     probe.rate)
    /\ UNCHANGED <<globals, probe, pos, win, pend, outcome>>

SpecLeverage == InitLeverage /\ [][InterpretLeverage]_vars

\* C15 - whenever the funding risk is HIGH, the interpreted condition is the
\* danger class or the opportunity class, never HEALTHY or BORING MARKET,
\* whatever the open-interest volatility bucket.
C15_HighFundingRiskNeverBenign ==
    (phase = "Done" /\ probe.funding_ok /\ probe.oi_ok
        /\ FundingRisk(probe.rate) = "HIGH") =>
        answer \in {"DANGER ZONE - TOP RISK", "OPPORTUNITY - BOTTOM SIGNAL"}

C16_ObservedRefreshedInCooldown ==
    \A d \in ObsDets :
        (res[d].called /\ res[d].blocked /\ res[d].avail) => res[d].upd


\* C17 - fired-timestamp discipline: a detector's last-fired timestamp changes
\* only in a cycle in which that detector hands an event to the dispatcher;
\* it is never cleared and never decreases.
C17_FiredTimestampDiscipline ==
    [][\A d \in Detectors :
         /\ lastTime'[d] # lastTime[d] => res'[d].handed
         /\ lastTime[d] # None =>
              (lastTime'[d] # None /\ lastTime'[d] >= lastTime[d])]_vars


\* C18 - per-detector event ordering: the firing times of one detector's
\* events are strictly increasing, and two consecutive ones are at least the
\* detector's cooldown apart.
C18_EventOrdering ==
    [][\A d \in Detectors :
         (res'[d].fired /\ lastTime[d] # None) =>
            /\ lastTime'[d] = now'
            /\ lastTime'[d] > lastTime[d]
            /\ lastTime'[d] - lastTime[d] >= Cooldown(d)]_vars

\* a detector hands over its next event at the very end of its cooldown
C18_Witness ==
    \E d \in Detectors :
        res[d].fired /\ res[d].handed /\ res[d].exact /\ lastTime[d] = now


-----------------------------------------------------------------------------
\* One cycle of check_all_signals, statement by statement: the fetch of the
\* minute series, the nine calls in order, and inside a call that triggers,
\* the assignment of last_alert_<d>_time and the later send_alert(message)

\* last minute at which a cycle of this scenario may start
CycleMaxTime == 180

\* position of the statements after the last call (1979-1984)
ReturnPos == Len(Order) + 1

CycleRegimes == {{"acc", "mom", "spike"}, {"gold"}, {"btc"}, {"dom"}}

\* the globals as the running cycle sees them
Cur ==
    [lt |-> lastTime, lo |-> lastObs, hv |-> hover, dead |-> FALSE,
     sent |-> sent, res |-> res]

\* what the requests of check_alert_<d> may answer in this cycle
CallInputs(d) ==
    IF d \in MinuteDets THEN {<<>>} ELSE Offered[active][d]

\* last_alert_<d>_time is assigned at the top of the trigger branch, before
\* the message is built and sent; check_alert_btc_dominance assigns it after
\* send_alert (1759-1760)
StampsFirst(d) == d # "dom"

\* the failing call is made again
AfterCallRetry(p, dead) == IF dead THEN p ELSE p + 1

\* the statement reached after a call: an exception that left the call is
\* caught at 1981 and nothing else is called
AfterCall(p, dead) == IF dead THEN ReturnPos ELSE p + 1

\* without the except clause of check_all_signals
ReachesLoopUnguarded(exc) == exc

\* check_all_signals catches every Exception (1981-1984): none reaches the
\* except clause of the loop (run_buy_signal_loop.py 75-89)
ReachesLoop(exc) == FALSE

\* what the loop does before its next call: time.sleep(60) after a call that
\* returned, time.sleep(120) at the end of its error branch
LoopSleep(error) == IF error THEN "sleep 120" ELSE "sleep 60"

InitCycle ==
    /\ InitGlobals
    /\ active \in CycleRegimes
    /\ InitAux

\* a minute series on which the acceleration test passes and the momentum
\* blocks divide by a zero close
FiringThenBroken == Window(1000, 1000, 1000, 1000, 1000, 0, 1010)

\* the minute series a cycle may be given
CycleWindows ==
    Offered[active].windows
    \cup (IF {"acc", "mom"} \subseteq active THEN {FiringThenBroken} ELSE {})

\* the loop, or the scheduler, calls check_all_signals
Tick ==
    /\ phase = "Idle"
    /\ \E dt \in TimeSteps :
         /\ now + dt <= CycleMaxTime
         /\ now' = now + dt
    /\ phase' = "Running"
    /\ pos' = 0
    /\ outcome' = "none"
    /\ topfetch' = "none"
    /\ win' = <<>>
    /\ sent' = [d \in Detectors |-> 0]
    /\ res' = [d \in Detectors |-> NoRes]
    /\ evald' = {}
    /\ raised' = {}
    /\ UNCHANGED <<lastTime, lastObs, hover, active, series, fires, probe,
                   answer, pend>>

\* get_cryptocompare_data and the tests on its result (1946-1964)
FetchMinuteSeries ==
    /\ phase = "Running"
    /\ pos = 0
    /\ \E top \in TopOutcomes :
         /\ topfetch' = top
         /\ IF top # "ok"
            THEN win' = win /\ pos' = ReturnPos
            ELSE \E w \in CycleWindows : win' = w /\ pos' = 1
    /\ UNCHANGED <<now, lastTime, lastObs, hover, active, evald, raised, sent,
                   res, series, fires, probe, answer, phase, pend, outcome>>

\* check_alert_<d> up to its trigger test, and to its end when the test fails
CallDetector ==
    /\ phase = "Running"
    /\ pos \in 1..Len(Order)
    /\ pend.d = "none"
    /\ \E x \in CallInputs(Order[pos]) :
       \E s \in {Step(Cur, Order[pos], now, win, InputOf(x))} :
         IF s.res[Order[pos]].fired
         THEN /\ pend' = [d |-> Order[pos], st |-> s]
              /\ lastTime' = IF StampsFirst(Order[pos]) THEN s.lt ELSE lastTime
              /\ lastObs' = s.lo
              /\ hover' = s.hv
              /\ UNCHANGED <<sent, res, evald, raised, pos>>
         ELSE /\ Finish(s)
              /\ pos' = AfterCall(pos, s.dead)
              /\ pend' = pend
    /\ UNCHANGED <<now, active, topfetch, series, fires, probe, answer, phase,
                   win, outcome>>

\* the rest of the trigger branch: the message is built and send_alert is
\* called, unless building it raised
SendAlert ==
    /\ phase = "Running"
    /\ pend.d # "none"
    /\ Finish(pend.st)
    /\ pos' = AfterCall(pos, pend.st.dead)
    /\ pend' = NoPend
    /\ UNCHANGED <<now, active, topfetch, series, fires, probe, answer, phase,
                   win, outcome>>

\* check_all_signals returns to the loop
Return ==
    /\ phase = "Running"
    /\ pos = ReturnPos
    /\ pend.d = "none"
    /\ phase' = "Idle"
    /\ outcome' = IF ReachesLoop(raised # {}) THEN "error" ELSE "returned"
    /\ answer' = LoopSleep(ReachesLoop(raised # {}))
    /\ UNCHANGED <<globals, probe, pos, win, pend>>

\* Ctrl+C or the end of the process while the cycle runs: KeyboardInterrupt
\* is not an Exception, no except clause of the cycle catches it, and the
\* loop exits (run_buy_signal_loop.py 63-73)
Abandon ==
    /\ phase = "Running"
    /\ phase' = "Stopped"
    /\ UNCHANGED <<globals, probe, answer, pos, win, pend, outcome>>

CycleStep == FetchMinuteSeries \/ CallDetector \/ SendAlert \/ Return

NextCycle == Tick \/ FetchMinuteSeries \/ CallDetector \/ SendAlert \/ Return

\* every request of the cycle has a timeout and no statement waits for
\* anything else: a started cycle keeps taking steps
SpecCycle == InitCycle /\ [][NextCycle]_vars /\ WF_vars(CycleStep)

SpecCancel == InitCycle /\ [][NextCycle \/ Abandon]_vars

\* no event was produced in the cycle
ZeroEvents == \A d \in Detectors : ~res[d].fired /\ sent[d] = 0

\* C19 - cycle state machine: a tick takes the coordinator from Idle to
\* Running and the cycle takes it back to Idle; every started cycle returns
\* to Idle whatever detector failures, fetch failures or absence of events
\* occur; a cycle with zero events does not end with an error outcome.
C19_CycleReturnsToIdle ==
    /\ (phase = "Running") ~> (phase = "Idle")
    /\ [][phase' # phase =>
            \/ phase = "Idle" /\ phase' = "Running"
            \/ phase = "Running" /\ phase' = "Idle"]_vars
    /\ []((phase = "Idle" /\ outcome # "none" /\ ZeroEvents)
            => outcome = "returned")

\* back in Idle after a cycle in which a detector raised and nothing fired
C19_Witness ==
    /\ phase = "Idle"
    /\ outcome = "returned"
    /\ raised # {}
    /\ ZeroEvents

\* C20 - cancellation safety: a cycle abandoned at an arbitrary point leaves
\* no detector with its last-fired timestamp advanced for an event that was
\* never handed to the dispatcher.
C20_CancellationSafety ==
    phase = "Stopped" =>
        \A d \in Detectors : lastTime[d] = now => res[d].handed


-----------------------------------------------------------------------------
\* The spike detector on a probed minute series, with the delivery of its
\* alert by send_telegram_message (crypto_monitor.py)

\* the six newest closes in tenths of a USD, oldest first; bars[6] is
\* candles[-1], whose close is the current price
SpikeBars(b1, b2, b6) == <<b1, b2, 1002, 1003, 1004, b6>>

\* candles[-k]['close'] for the probed bars; older candles repeat the oldest
SpikeWindow(bars) ==
    [c |-> [k \in MinuteIdx |-> IF k < Len(bars) THEN bars[Len(bars) - k + 1]
                                ELSE bars[1]],
     price |-> bars[Len(bars)]]

\* direction = "UP" if spike_change > 0 else "DOWN"
SpikeDirection(c, p) == IF p > c[ALERT_SPIKE_PERIOD] THEN "UP" ELSE "DOWN"

\* what a requests.post to the Telegram API may do: answer 200, answer
\* another status, or raise (timeout, connection error)
PostOutcomes == {"200", "error", "exception"}

\* send_telegram_message: the number of requests.post made and the result
SendTelegramMessage(first, second) ==
    CASE first = "200" -> [posts |-> 1, ok |-> TRUE]
      [] first = "exception" -> [posts |-> 1, ok |-> FALSE]
      [] first = "error" -> [posts |-> 2, ok |-> second = "200"]

\* the timestamp is taken back when the delivery failed
AfterSendAlertUndone(stamped, before, delivered) ==
    IF delivered THEN stamped ELSE before

\* send_alert(message) returns nothing and its caller reads nothing: the
\* globals are those assigned before the call
AfterSendAlert(stamped, before, delivered) == stamped

InitSpike ==
    /\ InitGlobals
    /\ active = {"spike"}
    /\ probe \in {SpikeBars(b1, b2, b6) :
                    b1 \in {1000, 1004}, b2 \in {994, 1000, 1001, 1007},
                    b6 \in {994, 995, 1000, 1006, 1007, 1010}}
    /\ answer = [dir |-> "none", posts |-> 0, ok |-> FALSE]
    /\ phase = "Idle"
    /\ pos = 0
    /\ win = <<>>
    /\ pend = NoPend
    /\ outcome = "none"

\* one call of check_alert_spike(candles, btc_price) on the probed series
CallSpike ==
    /\ \E dt \in TimeSteps :
         /\ now + dt <= MaxTime
         /\ now' = now + dt
    /\ topfetch' = "ok"
    /\ \E first \in PostOutcomes, second \in PostOutcomes :
       \E st \in {Step(Start(lastTime, lastObs, hover), "spike", now',
                       SpikeWindow(probe), <<>>)} :
       \E sent_ \in {SendTelegramMessage(first, second)} :
         /\ Finish([st EXCEPT !.lt = AfterSendAlert(st.lt, lastTime, sent_.ok)])
         /\ answer' = IF st.res["spike"].handed
                      THEN [dir |-> SpikeDirection(SpikeWindow(probe).c,
                                                   SpikeWindow(probe).price),
                            posts |-> sent_.posts, ok |-> sent_.ok]
                      ELSE [dir |-> "none", posts |-> 0, ok |-> FALSE]
    /\ UNCHANGED <<active, series, fires, probe, phase, pos, win, pend, outcome>>

SpecSpike == InitSpike /\ [][CallSpike]_vars

\* C21 - the dispatcher never retries a failed delivery synchronously: for
\* one event send_telegram_message makes a single delivery attempt, and a
\* failed attempt is only logged.
C21_SingleDeliveryAttempt ==
    res["spike"].handed => answer.posts = 1


-----------------------------------------------------------------------------
\* The level tests of the ETH/BTC, dominance, gold and BTC detectors on a
\* probed pair of consecutive observations

\* ETH/BTC ratios in thousandths, dominance in tenths of a percent: values
\* on, just below and just above the configured levels; gold and BTC prices
\* in USD around multiples of 50, 100 and 2000
InitCrossing ==
    /\ InitGlobals
    /\ active = {"eth"}
    /\ probe \in [d : {"eth"}, prev : {34, 35, 36, 39, 40, 41, 45, 46},
                   cur : {34, 35, 36, 39, 40, 41, 45, 46}]
              \cup [d : {"dom"}, prev : {535, 540, 545, 560, 565, 575, 585, 590},
                    cur : {535, 540, 545, 560, 565, 575, 585, 590}]
              \cup [d : {"gold"}, prev : {3990, 4000, 4040, 4060, 4100, 4110},
                    cur : {3990, 4000, 4040, 4060, 4100, 4110}]
              \cup [d : {"btc"}, prev : {99000, 100000, 101000, 102000, 103500},
                    cur : {99000, 100000, 101000, 102000, 103500}]
    /\ answer = "none"
    /\ phase = "Idle"
    /\ pos = 0
    /\ win = <<>>
    /\ pend = NoPend
    /\ outcome = "none"

\* crossed_level of check_alert_eth_btc (1027-1035); a "Crossed ..." entry in
\* alert_reason of check_alert_btc_dominance (1706-1717); crossed_level of
\* check_alert_gold (628-631) and of check_alert_btc_level (1241-1244)
ReportCrossing ==
    /\ phase = "Idle"
    /\ phase' = "Done"
    /\ LET crossed ==
             CASE probe.d = "eth" ->
                    CrossedExplicit(probe.prev, probe.cur, ALERT_ETH_BTC_LEVELS)
               [] probe.d = "dom" -> DomCrossed(probe.prev, probe.cur) # {}
               [] OTHER -> CrossedRound(probe.prev, probe.cur, Increment(probe.d))
       IN  answer' = IF crossed THEN "crossed" ELSE "same"
    /\ UNCHANGED <<globals, probe, pos, win, pend, outcome>>

SpecCrossing == InitCrossing /\ [][ReportCrossing]_vars

\* C22 - the explicit-level tests behave like the round-level one: a crossing
\* is reported exactly when the previous and the current observation lie in
\* different intervals of the level list, a value equal to a level belonging
\* to the interval above it.
C22_CrossingIffIntervalChange ==
    (phase = "Done" /\ probe.d \in {"eth", "dom"}) =>
        LET levels == IF probe.d = "eth" THEN ALERT_ETH_BTC_LEVELS
                      ELSE ALERT_BTC_DOM_THRESHOLDS
            below(v) == SetMax({0} \cup {l \in levels : l <= v})
        IN  (answer = "crossed") <=> (below(probe.prev) # below(probe.cur))


\* C23 - volume-confirmation guard: in the gold and ETH/BTC detectors, when
\* the current-hour volume is more than 50 % below its rolling average, no
\* event is emitted and the last-fired timestamp is unchanged, even if a
\* divergence threshold, a level cross or an extremum break holds.
C23_VolumeGuard ==
    [][\A d \in {"gold", "eth"} :
         res'[d].low =>
            /\ ~res'[d].fired
            /\ sent'[d] = 0
            /\ lastTime'[d] = lastTime[d]]_vars

\* the volume is too low in a cycle in which a level was crossed
C23_Witness ==
    \E d \in {"gold", "eth"} :
        res[d].low /\ res[d].cross /\ ~res[d].fired /\ lastTime[d] # now

-----------------------------------------------------------------------------
\* ------------------------------------------------------------------------
\* The dominance scenario: check_alert_btc_dominance called on chosen answers
\* of its two requests, the stored value being the one of the call before
\* ------------------------------------------------------------------------
InitDominance ==
    /\ InitGlobals
    /\ active = {"dom"}
    /\ probe = [current_dom |-> 550, change |-> 0, hist |-> "ok", last |-> None]
    /\ answer = {}
    /\ phase = "Idle"
    /\ pos = 0
    /\ win = <<>>
    /\ pend = NoPend
    /\ outcome = "none"

\* one call of check_alert_btc_dominance(); probe keeps what it read
CallDominance ==
    /\ \E dt \in TimeSteps :
         /\ now + dt <= MaxTime
         /\ now' = now + dt
    /\ topfetch' = "ok"
    /\ \E current_dom \in {535, 540, 545, 570, 573, 574, 590},
          change \in {-5, -4, 0, 4, 5}, hist \in {"ok", "http"} :
       \E st \in {Step(Start(lastTime, lastObs, hover), "dom", now', <<>>,
                       InputOf([out |-> "ok", current_dom |-> current_dom,
                                hist |-> hist, change |-> change]))} :
         /\ Finish(st)
         /\ probe' = [current_dom |-> current_dom, change |-> change,
                      hist |-> hist, last |-> lastObs["dom"]]
         \* the kinds of the entries of alert_reason
         /\ answer' = IF st.res["dom"].upd
                      THEN {r[1] : r \in DomReasons(lastObs["dom"], current_dom,
                                        IF hist = "ok" THEN current_dom - change
                                        ELSE None)}
                      ELSE {}
    /\ UNCHANGED <<active, series, fires, phase, pos, win, pend, outcome>>

SpecDominance == InitDominance /\ [][CallDominance]_vars

\* C24 - the dominance detector fires iff at least one of these holds: (a) a
\* threshold is crossed between the last observed value and the current one
\* (the two lie in different intervals of the threshold list, a value equal
\* to a threshold belonging to the interval above it), (b) the magnitude of
\* the 24-hour change is at least the momentum floor, (c) the zone and the
\* momentum conflict; each of them alone is sufficient.
C24_FiresIffAnyCondition ==
    (res["dom"].called /\ ~res["dom"].blocked /\ res["dom"].upd) =>
        LET below(v) == SetMax({0} \cup {l \in ALERT_BTC_DOM_THRESHOLDS : l <= v})
            crossing == /\ probe.last # None
                        /\ below(probe.last) # below(probe.current_dom)
            known == probe.hist = "ok"
            momentum == known /\ Abs(probe.change) >= ALERT_BTC_DOM_MOMENTUM_THRESHOLD
            high == probe.current_dom >= 575
            edge == /\ momentum
                    /\ \/ high /\ probe.change < 0
                       \/ ~high /\ probe.current_dom >= 540 /\ probe.change > 0
        IN  res["dom"].fired <=> (crossing \/ momentum \/ edge)

\* C34 - in the dominance detector the edge condition implies the momentum
\* condition: whenever "Edge" is among the reasons of a cycle, "Momentum
\* shift" is among them too, so no event is fired with the edge as its only
\* reason.
C34_EdgeImpliesMomentum ==
    /\ "edge" \in answer => "momentum" \in answer
    /\ res["dom"].fired => answer # {"edge"}

\* an event whose reasons are the edge and the momentum, without a crossing
C34_Witness ==
    /\ res["dom"].fired
    /\ answer = {"edge", "momentum"}

\* C25 - spike: with period 5 and threshold 0.6 %, the closes 100, 100.1,
\* 100.2, 100.3, 100.4, 101.0 (current price 101.0) fire with direction up; in
\* general the detector fires iff the magnitude of the percentage change
\* between the close 5 periods before the last bar and the current price is
\* at least the threshold.
C25_SpikeIffChangeOverPeriod ==
    (res["spike"].called /\ ~res["spike"].blocked) =>
        /\ res["spike"].fired <=>
              PctAtLeast(probe[1], probe[Len(probe)], ALERT_SPIKE_THRESHOLD)
        /\ probe = SpikeBars(1000, 1001, 1010) =>
              res["spike"].fired /\ answer.dir = "UP"

-----------------------------------------------------------------------------
\* ------------------------------------------------------------------------
\* The acceleration scenario: check_alert_acceleration called on a series of
\* at least 2 * ALERT_ACCELERATION_PERIOD bars
\* ------------------------------------------------------------------------
\* direction = "UP" if period2_change > 0 else "DOWN", for positive closes
AccelerationDirection(c, p) ==
    IF p > c[ALERT_ACCELERATION_PERIOD] THEN "UP" ELSE "DOWN"

InitAcceleration ==
    /\ InitGlobals
    /\ active = {"acc"}
    /\ probe \in [c60 : {1000, 1010}, c30 : {1000, 1005},
                  p : {990, 995, 996, 1000, 1004, 1005, 1010, 1011}]
    /\ answer = "none"
    /\ phase = "Idle"
    /\ pos = 0
    /\ win = <<>>
    /\ pend = NoPend
    /\ outcome = "none"

\* one call of check_alert_acceleration(candles, btc_price)
CallAcceleration ==
    /\ \E dt \in {20, 60} :
         /\ now + dt <= MaxTime
         /\ now' = now + dt
    /\ topfetch' = "ok"
    /\ \E w \in {Window(probe.c60, probe.c30, probe.c30, probe.c30, probe.c30,
                        probe.c30, probe.p)} :
       \E st \in {Step(Start(lastTime, lastObs, hover), "acc", now', w, <<>>)} :
         /\ Finish(st)
         /\ answer' = IF st.res["acc"].handed
                      THEN AccelerationDirection(w.c, w.price) ELSE "none"
    /\ UNCHANGED <<active, series, fires, probe, phase, pos, win, pend, outcome>>

SpecAcceleration == InitAcceleration /\ [][CallAcceleration]_vars

\* C26 - acceleration: with at least 2P bars and the cooldown elapsed, the
\* detector fires iff the magnitude of the recent P-period change minus the
\* magnitude of the previous P-period change is at least min_diff; the
\* direction is the sign of the recent change.
C26_AccelerationIffDifference ==
    (res["acc"].called /\ ~res["acc"].blocked) =>
        LET recent == probe.p - probe.c30
            previous == probe.c30 - probe.c60
        IN  /\ res["acc"].fired <=>
                 1000 * Abs(recent) * probe.c60
                    >= 1000 * Abs(previous) * probe.c30
                       + ALERT_ACCELERATION_MIN_DIFF * probe.c30 * probe.c60
            /\ res["acc"].fired /\ recent > 0 => answer = "UP"
            /\ res["acc"].fired /\ recent < 0 => answer = "DOWN"
            /\ ~res["acc"].fired => answer = "none"

\* a fall that accelerates after a rise: fired with direction down
C26_Witness ==
    /\ res["acc"].fired
    /\ probe.p < probe.c30
    /\ probe.c30 > probe.c60
    /\ answer = "DOWN"

\* C27 - a round-level crossing is measured with the detector's configured
\* increment: ALERT_GOLD_ROUND_INCREMENT for gold, ALERT_BTC_ROUND_INCREMENT
\* for BTC.
C27_CrossingUsesConfiguredIncrement ==
    (phase = "Done" /\ probe.d \in {"gold", "btc"}) =>
        LET increment == IF probe.d = "gold" THEN ALERT_GOLD_ROUND_INCREMENT
                         ELSE ALERT_BTC_ROUND_INCREMENT
        IN  (answer = "crossed") <=>
               (RoundLevel(probe.prev, increment) # RoundLevel(probe.cur, increment))

-----------------------------------------------------------------------------
\* ------------------------------------------------------------------------
\* The startup scenario: the process is started with settings that an
\* operator has edited, and check_alert_momentum then works with them
\* ------------------------------------------------------------------------
\* should_trigger of check_alert_momentum under the settings direction and
\* min_change (tenths of a percent); no branch for any other direction
ShouldTriggerWith(direction, min_change, c, p) ==
    LET all_positive == \A i \in Blocks : ~(BlockEnd(c, p, i) <= BlockStart(c, p, i))
        all_negative == \A i \in Blocks : ~(BlockEnd(c, p, i) >= BlockStart(c, p, i))
        all_meet_threshold == \A i \in Blocks :
            PctAtLeast(BlockStart(c, p, i), BlockEnd(c, p, i), min_change)
    IN  CASE direction = "up" -> all_positive /\ all_meet_threshold
          [] direction = "down" -> all_negative /\ all_meet_threshold
          [] direction = "both" ->
                (all_positive /\ all_meet_threshold)
                \/ (all_negative /\ all_meet_threshold)
          [] OTHER -> FALSE

\* the settings ALERT_MOMENTUM_DIRECTION, ALERT_MOMENTUM_COOLDOWN and
\* ALERT_MOMENTUM_MIN_CHANGE as edited, and the minute series of the run
InitStartup ==
    /\ InitGlobals
    /\ active = {"mom"}
    /\ probe \in [direction : {"up", "down", "both", "sideways"},
                  cooldown : {-60, 60}, min_change : {-2, 2},
                  w : {MomentumWindow(3, 3, 3, 3), MomentumWindow(1, 1, 1, 1),
                       MomentumWindow(-3, -3, -3, -3)}]
    /\ answer = "none"
    /\ phase = "Idle"
    /\ pos = 0
    /\ win = <<>>
    /\ pend = NoPend
    /\ outcome = "none"

\* main() of run_buy_signal_loop.py up to its loop: the startup message is
\* sent and the loop is entered; no setting is read
Startup ==
    /\ phase = "Idle"
    /\ phase' = "Running"
    /\ UNCHANGED <<globals, probe, answer, pos, win, pend, outcome>>

\* a cycle of the loop: check_alert_momentum under the edited settings
CycleWithSettings ==
    /\ phase = "Running"
    /\ \E dt \in MomentumSteps :
         /\ now + dt <= MaxTime
         /\ now' = now + dt
    /\ LET cool == CheckCooldown(lastTime["mom"], probe.cooldown, now')
           should_trigger == cool /\ ShouldTriggerWith(probe.direction,
                                        probe.min_change, probe.w.c, probe.w.price)
       IN  /\ lastTime' = IF should_trigger
                          THEN [lastTime EXCEPT !["mom"] = now'] ELSE lastTime
           /\ answer' = IF should_trigger THEN "sent" ELSE "quiet"
    /\ UNCHANGED <<lastObs, active, topfetch, evald, raised, sent, res, hover,
                   series, fires, probe, phase, pos, win, pend, outcome>>

SpecStartup == InitStartup /\ [][Startup \/ CycleWithSettings]_vars

\* C28 - configuration errors fail fast: with a momentum direction other than
\* 'up', 'down' or 'both', or a negative cooldown or threshold, the process is
\* rejected at startup: the loop is not entered and no cycle evaluates.
C28_InvalidConfigurationRejected ==
    (\/ probe.direction \notin {"up", "down", "both"}
     \/ probe.cooldown < 0
     \/ probe.min_change < 0)
        => (phase = "Idle" /\ answer = "none")

\* C30 - the cooldown starts at the firing, whatever the delivery: when the
\* detector fires and send_telegram_message returns False, the last-fired
\* timestamp is still set to the time of the firing, and the alert is not
\* attempted again until the cooldown has elapsed and the condition holds
\* again.
C30_CooldownStartsAtFiring ==
    [][/\ (res'["spike"].fired /\ ~answer'.ok) => lastTime'["spike"] = now'
       /\ answer'.posts > 0 =>
            /\ lastTime["spike"] # None =>
                  now' - lastTime["spike"] >= ALERT_SPIKE_COOLDOWN
            /\ PctAtLeast(probe[2], probe[Len(probe)], ALERT_SPIKE_THRESHOLD)
       /\ (lastTime["spike"] # None
              /\ now' - lastTime["spike"] < ALERT_SPIKE_COOLDOWN) =>
            /\ ~res'["spike"].fired
            /\ lastTime'["spike"] = lastTime["spike"]]_vars

\* a firing whose two posts both failed, stamped with the time of the call
C30_Witness ==
    /\ res["spike"].fired
    /\ answer.posts = 2
    /\ ~answer.ok
    /\ lastTime["spike"] = now

-----------------------------------------------------------------------------
\* C31 - a crossing during the cooldown is not lost if it persists: the gold,
\* BTC-level and ETH/BTC detectors leave their last-observed value alone
\* while in cooldown, so in the first cycle evaluated after the cooldown a
\* level cross is reported if the value then lies in another interval than
\* the one observed when the cooldown began, and none is reported if it lies
\* in the same interval again.
C31_CrossingInCooldownNotLost ==
    [][\A d \in CrossDets :
         (res[d].blocked /\ res'[d].called /\ res'[d].upd) =>
            LET interval(v) ==
                    IF d = "eth"
                    THEN SetMax({0} \cup {l \in ALERT_ETH_BTC_LEVELS : l <= v})
                    ELSE RoundLevel(v, Increment(d))
            IN  (res'[d].handed /\ res'[d].cross)
                  <=> (interval(lastObs[d]) # interval(lastObs'[d]))]_vars

\* C32 - low-volume suppression consumes the crossing: the gold, BTC-level
\* and ETH/BTC detectors advance their last-observed value before the volume
\* guard, so after a cycle in which a level cross or an extremum break was
\* suppressed for low volume, a later cycle reports a level cross only if
\* the value has moved to another interval since, and a break only if the
\* value has gone beyond the suppressed one.
C32_LowVolumeConsumesCrossing ==
    [][\A d \in CrossDets :
         /\ res'[d].low => res'[d].upd
         /\ (res[d].low /\ (res[d].cross \/ res[d].brk[1] \/ res[d].brk[2])
                /\ res'[d].called /\ res'[d].upd) =>
              LET interval(v) ==
                      IF d = "eth"
                      THEN SetMax({0} \cup {l \in ALERT_ETH_BTC_LEVELS : l <= v})
                      ELSE RoundLevel(v, Increment(d))
              IN  /\ (res'[d].fired /\ res'[d].cross) =>
                        interval(lastObs[d]) # interval(lastObs'[d])
                  /\ (res'[d].fired /\ res'[d].brk[1]) => lastObs'[d] > lastObs[d]
                  /\ (res'[d].fired /\ res'[d].brk[2]) => lastObs'[d] < lastObs[d]]_vars

\* C33 - events are dispatched inline in registration order: within a cycle
\* the detectors are evaluated in the fixed order of check_all_signals, each
\* detector's event has been sent when the next detector is evaluated, and
\* nothing that was sent is retracted afterwards, so an exception that ends
\* the cycle early drops no event fired by an earlier detector.
C33_InlineDispatchInOrder ==
    /\ [](\A j \in 1..Len(Order), k \in 1..Len(Order) :
            (j < k /\ res[Order[k]].called) =>
                /\ res[Order[j]].called
                /\ res[Order[j]].fired => res[Order[j]].handed)
    /\ [][phase = "Running" =>
            \A d \in Detectors :
                /\ sent'[d] >= sent[d]
                /\ res[d].handed => res'[d].handed]_vars

C36_VolumeGuardFailsOpen ==
    res["eth"].sfail =>
        /\ ~res["eth"].raise /\ res["eth"].upd /\ ~res["eth"].low
        /\ (res["eth"].cross \/ res["eth"].brk[1] \/ res["eth"].brk[2]) =>
               (res["eth"].fired /\ sent["eth"] = 1)

\* C36 as amended - a volume response that is not a 200, or that lacks the
\* 'Data' keys, leaves the volume deviation at 0: the guard does not suppress
\* and a level cross or a 7-day break of that call is reported.  A volume
\* request that raises ends the call in the detector's except clause: no
\* event, and the last-observed ratio is not advanced.
C36_VolumeGuardFailsOpenOnAnswer ==
    /\ (res["eth"].sfail /\ ~res["eth"].raise) =>
           /\ res["eth"].upd /\ ~res["eth"].low
           /\ (res["eth"].cross \/ res["eth"].brk[1] \/ res["eth"].brk[2]) =>
                  (res["eth"].fired /\ sent["eth"] = 1)
    /\ (res["eth"].sfail /\ res["eth"].raise) =>
           (~res["eth"].upd /\ ~res["eth"].fired /\ sent["eth"] = 0)

\* an ETH/BTC level cross reported in a call whose volume response was an error
C36_Witness ==
    /\ res["eth"].sfail /\ ~res["eth"].raise
    /\ res["eth"].cross /\ res["eth"].fired /\ sent["eth"] = 1

-----------------------------------------------------------------------------
\* ------------------------------------------------------------------------
\* Switched-off scenario: the master switch ALERT_ENABLED (line 11) and the
\* ALERT_<X>_ENABLED flags of the detectors as edited before the run
\* ------------------------------------------------------------------------
\* without the detector's own flag
IsEnabledMasterOnly(alert_enabled, detector_enabled) == alert_enabled

\* the first test of every check_alert_<d>:
\* if not ALERT_ENABLED or not ALERT_<X>_ENABLED: return
IsEnabled(alert_enabled, detector_enabled) ==
    ~(~alert_enabled \/ ~detector_enabled)

DisabledRegimes == {{"acc", "mom", "spike"}, {"gold"}, {"dom"}}

\* the detectors a run of the scenario has switched off
Inert ==
    IF probe.alert_enabled THEN probe.off ELSE Detectors

\* probe.off holds the detectors whose own flag is False
InitDisabled ==
    /\ InitGlobals
    /\ active \in DisabledRegimes
    /\ probe \in [alert_enabled : BOOLEAN, off : SUBSET active]
    /\ answer = "none"
    /\ phase = "Idle"
    /\ pos = 0
    /\ win = <<>>
    /\ pend = NoPend
    /\ outcome = "none"

\* the call of check_alert_<d> under the edited flags: a switched-off detector
\* returns at its first test; trig records what its body would have decided
StepWithFlags(st, d, t, w, inp) ==
    IF st.dead THEN st
    ELSE IF IsEnabled(probe.alert_enabled, d \notin probe.off)
    THEN Step(st, d, t, w, inp)
    ELSE [st EXCEPT !.res[d] =
            [NoRes EXCEPT !.called = TRUE,
                          !.trig = Body(d, IF d \in ObsDets THEN st.lo[d] ELSE None,
                                        w, inp).fire]]

\* a cycle: check_all_signals (1968-1977) under the edited flags
CycleWithFlags ==
    /\ \E dt \in TimeSteps :
         /\ now + dt <= MaxTime
         /\ now' = now + dt
    /\ topfetch' = "ok"
    /\ \E w \in Offered[active].windows :
       \E s1 \in {StepWithFlags(Start(lastTime, lastObs, hover), "acc", now', w, <<>>)} :
       \E s2 \in {StepWithFlags(s1, "mom", now', w, <<>>)} :
       \E s3 \in {StepWithFlags(s2, "spike", now', w, <<>>)} :
       \E g \in Offered[active].gold :
       \E s4 \in {StepWithFlags(s3, "gold", now', w, InputOf(g))} :
       \E r \in Offered[active].rot :
       \E s5 \in {StepWithFlags(s4, "rot", now', w, InputOf(r))} :
       \E b \in Offered[active].btc :
       \E s6 \in {StepWithFlags(s5, "btc", now', w, InputOf(b))} :
       \E e \in Offered[active].eth :
       \E s7 \in {StepWithFlags(s6, "eth", now', w, InputOf(e))} :
       \E m \in Offered[active].dom :
       \E s8 \in {StepWithFlags(s7, "dom", now', w, InputOf(m))} :
       \E v \in Offered[active].deriv :
       \E s9 \in {StepWithFlags(s8, "deriv", now', w, InputOf(v))} :
           Finish(s9)
    /\ UNCHANGED <<active, series, fires>>
    /\ UNCHANGED aux

SpecDisabled == InitDisabled /\ [][CycleWithFlags]_vars

\* C37 - disabled detectors are inert: when ALERT_ENABLED is false or the
\* detector's own enabled flag is false, a cycle leaves the detector's
\* last-fired timestamp and last-observed value unchanged and emits no event,
\* whatever its input.
C37_DisabledDetectorsInert ==
    [][\A d \in Inert :
         /\ lastTime'[d] = lastTime[d]
         /\ d \in ObsDets => lastObs'[d] = lastObs[d]
         /\ sent'[d] = 0
         /\ ~res'[d].fired /\ ~res'[d].handed]_vars

\* a cycle in which a detector switched off by its own flag alone was called
\* with an input its body would report, while an enabled detector fired
C37_Witness ==
    /\ probe.alert_enabled
    /\ \E d \in probe.off :
         /\ res[d].called /\ res[d].trig
         /\ sent[d] = 0 /\ lastTime[d] = None
    /\ \E d \in Detectors \ probe.off : res[d].fired /\ lastTime[d] = now

-----------------------------------------------------------------------------
\* ------------------------------------------------------------------------
\* get_current_prices (crypto_monitor.py 45-82), statement by statement
\* ------------------------------------------------------------------------
\* what a request may meet: a 200 whose body parses, a 200 whose body makes
\* response.json() raise, a rate limit, another error status, or a
\* requests.get that raises (timeout, connection error)
AttemptOutcomes == {"200", "200 unparsable", "429", "500", "exception"}

\* the answers the server holds ready, one per request that may come
Answers == 4

\* response.json() of the request numbered i
Payload(i) ==
    CASE i = 1 -> "payload 1"
      [] i = 2 -> "payload 2"
      [] i = 3 -> "payload 3"
      [] OTHER -> "payload 4"

\* a loop that goes round once more
MoreAttemptsFour(attempt) == attempt < 4

\* for attempt in range(3): the body runs for attempt 0, 1, 2
MoreAttempts(attempt) == attempt < 3

\* time.sleep after a response that is not a 200: 60 s after a 429 whatever
\* the attempt, 10 s after another status unless the attempt is the last
SleepAfter(status, attempt) ==
    IF status = "429" THEN 60
    ELSE IF attempt < 2 THEN 10 ELSE 0

\* pos is the loop variable attempt; answer.ret is what the call returned
InitPrices ==
    /\ InitGlobals
    /\ active = {"spike"}
    /\ probe \in [1..Answers -> AttemptOutcomes]
    /\ answer = [ret |-> "running", requests |-> 0, slept |-> 0]
    /\ phase = "Loop"
    /\ pos = 0
    /\ win = <<>>
    /\ pend = NoPend
    /\ outcome = "none"

\* requests.get and the test of its status (66-70); an exception of the
\* request or of response.json() is caught at 80-82
Request ==
    /\ phase = "Loop"
    /\ MoreAttempts(pos)
    /\ LET status == probe[pos + 1]
       IN  CASE status = "200" ->
                  /\ answer' = [answer EXCEPT !.ret = Payload(pos + 1),
                                              !.requests = @ + 1]
                  /\ phase' = "Done"
             [] status \in {"200 unparsable", "exception"} ->
                  /\ answer' = [answer EXCEPT !.ret = "None", !.requests = @ + 1]
                  /\ phase' = "Done"
             [] OTHER ->
                  /\ answer' = [answer EXCEPT !.requests = @ + 1]
                  /\ phase' = "Sleeping"
    /\ UNCHANGED <<globals, probe, pos, win, pend, outcome>>

\* time.sleep(60) or time.sleep(10) (71-77), then the next round of the loop
SleepAndRetry ==
    /\ phase = "Sleeping"
    /\ answer' = [answer EXCEPT !.slept = @ + SleepAfter(probe[pos + 1], pos)]
    /\ pos' = pos + 1
    /\ phase' = "Loop"
    /\ UNCHANGED <<globals, probe, win, pend, outcome>>

\* the loop is exhausted: return None (79)
ReturnNone ==
    /\ phase = "Loop"
    /\ ~MoreAttempts(pos)
    /\ answer' = [answer EXCEPT !.ret = "None"]
    /\ phase' = "Done"
    /\ UNCHANGED <<globals, probe, pos, win, pend, outcome>>

NextPrices == Request \/ SleepAndRetry \/ ReturnNone

\* the interpreter runs the function to its end
SpecPrices == InitPrices /\ [][NextPrices]_vars /\ WF_vars(NextPrices)

\* C38 - get_current_prices is a bounded retry: it issues at most three
\* requests, returns the payload of the first request answered 200, returns
\* None when all three attempts are non-200 or when an attempt raises, and
\* always terminates.
C38_BoundedRetry ==
    /\ [](answer.requests <= 3)
    /\ [](phase = "Done" =>
            LET Retried(i) == probe[i] \in {"429", "500"}
                Reached(i) == \A j \in 1..(i - 1) : Retried(j)
            IN  /\ \A i \in 1..3 :
                     (Reached(i) /\ probe[i] = "200") =>
                        (answer.ret = Payload(i) /\ answer.requests = i)
                /\ (\A i \in 1..3 : Retried(i)) =>
                        (answer.ret = "None" /\ answer.requests = 3)
                /\ (\E i \in 1..3 :
                        Reached(i) /\ probe[i] \in {"200 unparsable", "exception"}) =>
                        answer.ret = "None")
    /\ <>(phase = "Done")

\* the third request answered 200 after a rate limit and an error status
C38_Witness ==
    /\ phase = "Done"
    /\ probe[1] = "429" /\ probe[2] = "500" /\ probe[3] = "200"
    /\ answer.ret = "payload 3"
    /\ answer.requests = 3
    /\ answer.slept = 70

=============================================================================
